---- MODULE Spec2Model ----
(***************************************************************************)
(* FilePulse: content-addressed storage and lifecycle engine.              *)
(*                                                                         *)
(* State machine of the upload handler (app/routers/upload.py), the two    *)
(* retrieval handlers (app/routers/download.py) and the retention sweep    *)
(* (app/utils/scheduler.py) over the record store (app/models.py) and the  *)
(* upload directory.                                                       *)
(*                                                                         *)
(* Handlers are coroutines on one event loop (main.py runs one uvicorn     *)
(* process): a step is one awaited database statement together with the   *)
(* synchronous code that follows it up to the next await.  The schedules   *)
(* of these steps that are specified:                                      *)
(*   Spec        every operation runs alone, from its first to its last    *)
(*               step (the clock may advance in between);                  *)
(*   SpecUploads uploads interleave with each other, a sweep run runs      *)
(*               alone (FairUploads: runs begin, steps are taken);         *)
(*   SpecConc    the sweep interleaves with uploads, which arrive one at a *)
(*               time;                                                     *)
(*   SpecSweeps  as Spec without retrievals, recording the last sweep run; *)
(*   SpecJobs    the two scheduler jobs of start_scheduler interleave;     *)
(*   SpecFaults  as Spec, with a failing file write and a failing commit   *)
(*               of the sweep;                                             *)
(*   SpecSweepFaults  operations run alone, any statement of a sweep run   *)
(*               may fail (FairSweepFaults: a run takes its steps);        *)
(*   SpecApp     the application from lifespan's start to its shutdown,    *)
(*               the scheduler beginning the runs;                         *)
(*   SpecDaily   runs of the daily job begin at any time (FairDaily: and   *)
(*               do begin);                                                *)
(*   SpecCodes   uploads until every share code is taken (FairCodes);      *)
(*   SpecHealth  operations run alone, GET /health at any time;            *)
(*   SpecModels  uploads run alone, and FileRecord objects are built with  *)
(*               any of their time arguments.                              *)
(* SpecSanitize, SpecConfig and SpecSecurity apply sanitize_filename, the  *)
(* max_file_size validator of config.py and get_client_ip to one input     *)
(* each.                                                                   *)
(* The two retrieval handlers are single steps taken between operations.   *)
(*                                                                         *)
(* Time is counted in days (the unit of file_expiry_days).  Text is a      *)
(* sequence of one-character strings.  The store is the committed content  *)
(* of table file_records; a session's uncommitted writes are kept in the   *)
(* session's local state and reach the table at its commit.  dbLock is the *)
(* write lock of the SQLite database (config.py database_url): a session   *)
(* holds it from its first executed write statement to its commit.         *)
(***************************************************************************)
EXTENDS Integers, Sequences, FiniteSets, TLC

VARIABLES
    now,        \* the clock (datetime.utcnow / datetime.now(timezone.utc)), in days
    records,    \* committed rows of table file_records
    disk,       \* the upload directory: file_path -> bytes
    dbLock,     \* holder of the database write lock, or NoLock
    up,         \* per upload request: position and locals of upload_file
    sw,         \* per scheduler job: position and locals of _cleanup_with_session
    resp,       \* outcome of the operation completed by the last step, else NoResp
    uploaded,   \* per share code handed out and not past its returned expiry: the upload
    lastSweep,  \* history: the last committed sweep run, while no upload has followed it
    sched       \* the scheduler of main.py: its state and the jobs that are due

vars == <<now, records, disk, dbLock, up, sw, resp, uploaded, lastSweep, sched>>

----------------------------------------------------------------------------
(* Bounds of the model *)

MaxTime == 2            \* the clock runs 0..MaxTime
MaxRecords == 3         \* rows plus uploads in flight
NumCodes == 3           \* size of the share-code space
MaxContentLen == 3      \* longest uploaded body
MaxSizeTextLen == 4     \* longest max_file_size string tried exhaustively
MaxFileNameLen == 3     \* longest filename tried exhaustively
MaxHeaderLen == 3       \* longest X-Forwarded-For value tried

(* Program constants, scaled *)

max_file_size == 2      \* settings.max_file_size, in bytes
file_expiry_days == 1   \* settings.file_expiry_days
MaxNameLen == 12        \* length cap of sanitize_filename (255); unnamed_file fits

(* request slots (at most two uploads in flight); a new request takes the *)
(* first free slot                                                        *)
Uploaders == {"u1", "u2"}
EarlierSlots(u) == IF u = "u1" THEN {} ELSE {"u1"}
(* scheduler.py start(): the two jobs that run cleanup_expired_files, each *)
(* run with a session of its own                                          *)
DailyJob == "file_cleanup"
StartupJob == "file_cleanup_startup"
Jobs == {DailyJob, StartupJob}
NoLock == "none"
Codes == 1..NumCodes
Contents == {[i \in 1..n |-> 1] : n \in 1..MaxContentLen}

Str_unnamed == <<"u", "n", "n", "a", "m", "e", "d">>
Str_unnamed_file == <<"u", "n", "n", "a", "m", "e", "d", "_", "f", "i", "l", "e">>

(* Filenames sent by clients: an empty one and a traversal attempt *)
FileNames == { << >>, <<".", ".", "/", "b", "?">> }

NoRecord == [id |-> 0]
NoResp == [op |-> "none"]
NoUpload == [status |-> 0]

(* values of the history variable: not recorded in this behaviour; recorded *)
(* and no run committed since the last upload; recorded and runs committed  *)
(* since the last upload (one, or two and more), the last at time now and   *)
(* the one before it at time prev                                           *)
NotRecorded == [recorded |-> FALSE, runs |-> 0, now |-> 0, prev |-> 0]
NoSweep == [recorded |-> TRUE, runs |-> 0, now |-> 0, prev |-> 0]
SweptAt(h, t) ==
    [recorded |-> TRUE, runs |-> IF h.runs = 0 THEN 1 ELSE 2,
     now |-> t, prev |-> IF h.runs = 0 THEN t ELSE h.now]

(* the scheduler of main.py:24.  state: "stopped" before lifespan starts   *)
(* it, "running", "shutdown" after lifespan has shut it down; due: the     *)
(* jobs whose run time has come and that the scheduler has yet to process; *)
(* started_at: the clock at start(); begun: per job, the runs begun.       *)
(* NoScheduler: the schedule of the specification begins the runs itself.  *)
NoScheduler ==
    [state |-> "none", due |-> {}, started_at |-> 0, begun |-> [j \in Jobs |-> 0]]
StoppedScheduler ==
    [state |-> "stopped", due |-> {}, started_at |-> 0, begun |-> [j \in Jobs |-> 0]]

----------------------------------------------------------------------------
(* app/utils/file_utils.py *)

(* hashlib.md5(data).hexdigest(): a digest that is a function of the bytes *)
(* alone and separates the bodies of the model (bytes are 0..2).           *)
RECURSIVE calculate_md5_from_bytes(_)
calculate_md5_from_bytes(data) ==
    IF data = << >> THEN 0
    ELSE (data[Len(data)] + 1) + 4 * calculate_md5_from_bytes(SubSeq(data, 1, Len(data) - 1))

----------------------------------------------------------------------------
(* app/utils/security.py: sanitize_filename *)

Letters == {"a", "b", "c", "d", "e", "f", "g", "h", "i", "j", "k", "l", "m",
            "n", "o", "p", "q", "r", "s", "t", "u", "v", "w", "x", "y", "z"}
ControlChars == {"NUL", "TAB", "LF", "CR"}                 \* \x00-\x1f
DangerousChars == {"<", ">", ":", "\"", "/", "\\", "|", "?", "*"} \cup ControlChars
WhitespaceChars == {" ", "NBSP"} \cup {"TAB", "LF", "CR"}  \* \s
StripChars == {".", " ", "-"}

(* bleach.clean(filename, tags=[], strip=True): markup is dropped, what is *)
(* left of the markup characters is escaped, an invisible control          *)
(* character becomes a question mark.                                      *)
RECURSIVE bleach_from(_, _)
bleach_from(s, i) ==
    IF i > Len(s) THEN << >>
    ELSE IF /\ s[i] = "<"
            /\ i < Len(s)
            /\ s[i + 1] \in Letters \cup {"/", "!", "?"}
            /\ \E j \in (i + 1)..Len(s) : s[j] = ">"
         THEN LET close == CHOOSE j \in (i + 1)..Len(s) :
                               /\ s[j] = ">"
                               /\ \A k \in (i + 1)..(j - 1) : s[k] # ">"
              IN  bleach_from(s, close + 1)
    ELSE IF s[i] = "<" THEN <<"&", "l", "t", ";">> \o bleach_from(s, i + 1)
    ELSE IF s[i] = ">" THEN <<"&", "g", "t", ";">> \o bleach_from(s, i + 1)
    ELSE IF s[i] = "&" THEN <<"&", "a", "m", "p", ";">> \o bleach_from(s, i + 1)
    ELSE IF s[i] = "NUL" THEN <<"?">> \o bleach_from(s, i + 1)
    ELSE <<s[i]>> \o bleach_from(s, i + 1)

bleach_clean(s) == bleach_from(s, 1)

(* Path(filename).name: the last component that is neither empty nor "." *)
RECURSIVE path_parts(_, _, _)
path_parts(s, i, cur) ==
    IF i > Len(s) THEN <<cur>>
    ELSE IF s[i] = "/" THEN <<cur>> \o path_parts(s, i + 1, << >>)
    ELSE path_parts(s, i + 1, Append(cur, s[i]))

IsPathPart(p) == p # << >> /\ p # <<".">>

path_name(s) ==
    LET parts == SelectSeq(path_parts(s, 1, << >>), IsPathPart)
    IN  IF parts = << >> THEN << >> ELSE parts[Len(parts)]

IsSafeChar(c) == c \notin DangerousChars

(* re.sub(r'[<>:"/\\|?*\x00-\x1f]', '', filename) *)
remove_dangerous(s) == SelectSeq(s, IsSafeChar)

(* re.sub(r'\s+', ' ', filename) *)
RECURSIVE collapse_spaces(_, _)
collapse_spaces(s, i) ==
    IF i > Len(s) THEN << >>
    ELSE IF s[i] \in WhitespaceChars
         THEN IF i > 1 /\ s[i - 1] \in WhitespaceChars
              THEN collapse_spaces(s, i + 1)
              ELSE <<" ">> \o collapse_spaces(s, i + 1)
    ELSE <<s[i]>> \o collapse_spaces(s, i + 1)

(* filename.strip('. -') *)
RECURSIVE lstrip(_)
lstrip(s) ==
    IF s # << >> /\ s[1] \in StripChars THEN lstrip(Tail(s)) ELSE s

RECURSIVE rstrip(_)
rstrip(s) ==
    IF s # << >> /\ s[Len(s)] \in StripChars
    THEN rstrip(SubSeq(s, 1, Len(s) - 1)) ELSE s

strip(s) == rstrip(lstrip(s))

(* Python's s[:n], n possibly negative *)
PySlice(s, n) ==
    IF n >= 0
    THEN SubSeq(s, 1, IF n < Len(s) THEN n ELSE Len(s))
    ELSE SubSeq(s, 1, IF Len(s) + n > 0 THEN Len(s) + n ELSE 0)

(* the length cap: filename.rsplit('.', 1), name[:max_name_len] + '.' + ext *)
limit_length(s) ==
    IF Len(s) > MaxNameLen
    THEN IF \E i \in 1..Len(s) : s[i] = "."
         THEN LET dot == CHOOSE i \in 1..Len(s) :
                             s[i] = "." /\ \A k \in (i + 1)..Len(s) : s[k] # "."
                  name == SubSeq(s, 1, dot - 1)
                  ext == SubSeq(s, dot + 1, Len(s))
                  max_name_len == MaxNameLen - Len(ext) - 1
              IN  PySlice(name, max_name_len) \o <<".">> \o ext
         ELSE PySlice(s, MaxNameLen)
    ELSE s

IsSpace(s) == s # << >> /\ \A i \in 1..Len(s) : s[i] \in WhitespaceChars

(* lines 19-34: the name after the cleaning steps, before the length cap *)
clean_name(filename) ==
    strip(collapse_spaces(remove_dangerous(path_name(bleach_clean(filename))), 1))

(* bug: no fallback name *)
sanitize_filename_nofallback(filename) == limit_length(clean_name(filename))

sanitize_filename(filename) ==
    LET cleaned == limit_length(clean_name(filename))
    IN  IF cleaned = << >> \/ IsSpace(cleaned) THEN Str_unnamed_file ELSE cleaned

(* a call of sanitize_filename *)
SanitizeFilename(names) ==
    /\ resp = NoResp
    /\ \E f \in names :
         resp' = [op |-> "sanitize_filename", filename |-> f,
                  result |-> sanitize_filename(f)]
    /\ UNCHANGED <<now, records, disk, dbLock, up, sw, uploaded, lastSweep, sched>>

----------------------------------------------------------------------------
(* app/config.py: Settings.parse_file_size *)

DigitChars == <<"0", "1", "2", "3", "4", "5", "6", "7", "8", "9">>
Digits == {DigitChars[i] : i \in 1..Len(DigitChars)}
DigitValue(c) == (CHOOSE i \in 1..Len(DigitChars) : DigitChars[i] = c) - 1

(* int(digits) of a run of decimal digits *)
RECURSIVE DecimalValue(_)
DecimalValue(ds) ==
    IF ds = << >> THEN 0
    ELSE 10 * DecimalValue(SubSeq(ds, 1, Len(ds) - 1)) + DigitValue(ds[Len(ds)])

RECURSIVE Pow(_, _)
Pow(b, e) == IF e = 0 THEN 1 ELSE b * Pow(b, e - 1)

(* str.upper() *)
LowerChars == <<"b", "e", "g", "k", "m", "x">>
UpperChars == <<"B", "E", "G", "K", "M", "X">>
upper_char(c) ==
    IF \E i \in 1..Len(LowerChars) : LowerChars[i] = c
    THEN UpperChars[CHOOSE i \in 1..Len(LowerChars) : LowerChars[i] = c]
    ELSE c
str_upper(s) == [i \in 1..Len(s) |-> upper_char(s[i])]

(* str.strip(): whitespace off both ends *)
RECURSIVE ws_lstrip(_)
ws_lstrip(s) ==
    IF s # << >> /\ s[1] \in WhitespaceChars THEN ws_lstrip(Tail(s)) ELSE s

RECURSIVE ws_rstrip(_)
ws_rstrip(s) ==
    IF s # << >> /\ s[Len(s)] \in WhitespaceChars
    THEN ws_rstrip(SubSeq(s, 1, Len(s) - 1)) ELSE s

ws_strip(s) == ws_rstrip(ws_lstrip(s))

(* the position after the longest run of characters of cs that starts at i *)
RECURSIVE SpanEnd(_, _, _)
SpanEnd(s, i, cs) ==
    IF i <= Len(s) /\ s[i] \in cs THEN SpanEnd(s, i + 1, cs) ELSE i

(* bug: decimal units *)
UnitBytes_decimal(unit) ==
    IF unit = <<"K", "B">> THEN 1000
    ELSE IF unit = <<"M", "B">> THEN 1000 * 1000
    ELSE IF unit = <<"G", "B">> THEN 1000 * 1000 * 1000
    ELSE 1

(* lines 56-61: the table of units; no unit is 'B' *)
UnitBytes(unit) ==
    IF unit = <<"K", "B">> THEN 1024
    ELSE IF unit = <<"M", "B">> THEN 1024 * 1024
    ELSE IF unit = <<"G", "B">> THEN 1024 * 1024 * 1024
    ELSE 1

UnitNames == {<<"B">>, <<"K", "B">>, <<"M", "B">>, <<"G", "B">>}

(* values of settings.max_file_size before validation: an int or a string *)
IntValue(n) == [type |-> "int", val |-> n]
StrValue(s) == [type |-> "str", val |-> s]

ParsedSize(n) == [ok |-> TRUE, value |-> n]
ValueError == [ok |-> FALSE, value |-> 0]

(* lines 41-63.  re.match(r'^(\d+(?:\.\d+)?)\s*(B|KB|MB|GB)?$', v_str), then *)
(* int(float(number) * units[unit]): the product of a decimal number of a   *)
(* few digits and a power of 1024 below 2^53 is computed exactly enough for *)
(* int() to give the integer part of the exact product                      *)
parse_file_size(v) ==
    IF v.type = "int" THEN ParsedSize(v.val)
    ELSE LET v_str == str_upper(ws_strip(v.val))
             int_end == SpanEnd(v_str, 1, Digits)
             frac_end == IF /\ int_end <= Len(v_str)
                            /\ v_str[int_end] = "."
                            /\ SpanEnd(v_str, int_end + 1, Digits) > int_end + 1
                         THEN SpanEnd(v_str, int_end + 1, Digits)
                         ELSE int_end
             unit_start == SpanEnd(v_str, frac_end, WhitespaceChars)
             unit == SubSeq(v_str, unit_start, Len(v_str))
             int_digits == SubSeq(v_str, 1, int_end - 1)
             frac_digits == SubSeq(v_str, int_end + 1, frac_end - 1)
             scaled == DecimalValue(int_digits \o frac_digits)
         IN  IF int_end = 1 \/ unit \notin UnitNames \cup {<< >>}
             THEN ValueError
             ELSE ParsedSize((scaled * UnitBytes(unit)) \div Pow(10, Len(frac_digits)))

(* line 66: settings = Settings() validates the configured max_file_size, *)
(* once, when the module is loaded                                        *)
ParseFileSize(values) ==
    /\ resp = NoResp
    /\ \E v \in values :
         resp' = [op |-> "parse_file_size", v |-> v, result |-> parse_file_size(v)]
    /\ UNCHANGED <<now, records, disk, dbLock, up, sw, uploaded, lastSweep, sched>>

----------------------------------------------------------------------------
(* app/utils/security.py: get_client_ip *)

Str_unknown == <<"u", "n", "k", "n", "o", "w", "n">>

(* requests: headers maps the names of the headers that are present to   *)
(* their values, client is the peer's host or no peer at all; a header   *)
(* value may be empty and may hold commas and blanks                     *)
ClientRequests ==
    LET forwarded == UNION {[1..n -> {"1", ",", " "}] : n \in 0..MaxHeaderLen}
        real_ip == {<< >>, <<"2">>}
        present == {[h \in {"X-Forwarded-For"} |-> f] : f \in forwarded}
                   \cup {[h \in {"X-Real-IP"} |-> r] : r \in real_ip}
                   \cup {[h \in {"X-Forwarded-For", "X-Real-IP"} |->
                             IF h = "X-Real-IP" THEN r ELSE f] :
                            f \in forwarded, r \in real_ip}
                   \cup {<< >>}
    IN  [headers : present,
         client : {[peer |-> FALSE, host |-> << >>],
                   [peer |-> TRUE, host |-> <<"3">>]}]

(* bug: X-Real-IP is looked at before X-Forwarded-For *)
get_client_ip_realfirst(request) ==
    LET get(name) == IF name \in DOMAIN request.headers
                     THEN [some |-> TRUE, val |-> request.headers[name]]
                     ELSE [some |-> FALSE, val |-> << >>]
        forwarded == get("X-Forwarded-For")
        real_ip == get("X-Real-IP")
    IN  IF real_ip.some /\ real_ip.val # << >> THEN real_ip.val
        ELSE IF forwarded.some /\ forwarded.val # << >>
        THEN ws_strip(SubSeq(forwarded.val, 1,
                             SpanEnd(forwarded.val, 1, {"1", " "}) - 1))
        ELSE IF request.client.peer THEN request.client.host
        ELSE Str_unknown

(* lines 67-88: headers.get gives None for an absent header, and None and *)
(* the empty string are both false; split(",")[0] is the text before the *)
(* first comma, strip() drops the whitespace around it                    *)
get_client_ip(request) ==
    LET get(name) == IF name \in DOMAIN request.headers
                     THEN [some |-> TRUE, val |-> request.headers[name]]
                     ELSE [some |-> FALSE, val |-> << >>]
        forwarded == get("X-Forwarded-For")
        real_ip == get("X-Real-IP")
        truthy(v) == v.some /\ v.val # << >>
        before_comma(t) ==
            IF \E i \in 1..Len(t) : t[i] = ","
            THEN SubSeq(t, 1, (CHOOSE i \in 1..Len(t) :
                                  /\ t[i] = ","
                                  /\ \A k \in 1..(i - 1) : t[k] # ",") - 1)
            ELSE t
    IN  IF truthy(forwarded) THEN ws_strip(before_comma(forwarded.val))
        ELSE IF truthy(real_ip) THEN real_ip.val
        ELSE IF request.client.peer THEN request.client.host
        ELSE Str_unknown

(* a call of get_client_ip *)
GetClientIp ==
    /\ resp = NoResp
    /\ \E request \in ClientRequests :
         resp' = [op |-> "get_client_ip", request |-> request,
                  result |-> get_client_ip(request)]
    /\ UNCHANGED <<now, records, disk, dbLock, up, sw, uploaded, lastSweep, sched>>

----------------------------------------------------------------------------
(* app/models.py: table file_records, and the queries made on it *)

FileRecord(id, filename, original_filename, share_code, upload_time, expiry_time, file_path, file_size, file_md5) ==
    [id |-> id, filename |-> filename, original_filename |-> original_filename,
     share_code |-> share_code, upload_time |-> upload_time,
     expiry_time |-> expiry_time, file_path |-> file_path,
     file_size |-> file_size, file_md5 |-> file_md5]

(* bug: __init__ computes expiry_time also when the caller gives one *)
FileRecordInit_override(kwargs, utcnow) ==
    LET upload_time == IF "upload_time" \in DOMAIN kwargs
                       THEN kwargs.upload_time ELSE utcnow
    IN  [upload_time |-> upload_time,
         expiry_time |-> upload_time + file_expiry_days]

(* lines 30-38, FileRecord.__init__: kwargs holds the keyword arguments  *)
(* that are given, utcnow is the clock; the result holds the arguments   *)
(* passed on to the declarative constructor                              *)
FileRecordInit(kwargs, utcnow) ==
    IF "expiry_time" \notin DOMAIN kwargs /\ "upload_time" \in DOMAIN kwargs
    THEN [upload_time |-> kwargs.upload_time,
          expiry_time |-> kwargs.upload_time + file_expiry_days]
    ELSE IF "expiry_time" \notin DOMAIN kwargs
    THEN [upload_time |-> utcnow, expiry_time |-> utcnow + file_expiry_days]
    ELSE kwargs

(* the time arguments a caller may give: none, one or both *)
TimeKwargs ==
    UNION {[d -> 0..MaxTime] : d \in SUBSET {"upload_time", "expiry_time"}}

(* a FileRecord is built outside a request, as the tests do *)
NewFileRecord ==
    /\ \E kwargs \in TimeKwargs :
         resp' = [op |-> "file_record", kwargs |-> kwargs, utcnow |-> now,
                  record |-> FileRecordInit(kwargs, now)]
    /\ UNCHANGED <<now, records, disk, dbLock, up, sw, uploaded, lastSweep, sched>>

(* autoincrement primary key: one more than the largest id in the table *)
NextId(recs) ==
    IF recs = {} THEN 1
    ELSE (CHOOSE i \in {r.id : r \in recs} : \A r \in recs : r.id <= i) + 1

(* select(FileRecord).where(share_code == code).scalar_one_or_none() *)
RecordByCode(recs, code) ==
    IF \E r \in recs : r.share_code = code
    THEN CHOOSE r \in recs : r.share_code = code
    ELSE NoRecord

(* bug: the column is not unique *)
UniqueViolation_off(recs, code) == FALSE

(* share_code is declared unique=True: an INSERT of a used code fails *)
UniqueViolation(recs, code) == \E r \in recs : r.share_code = code

(* bug: the digest lookup finds nothing *)
ExistingRecords_none(recs, md5) == {NoRecord}

(* select(FileRecord).where(file_md5 == md5).order_by(expiry_time.desc()) *)
(* .first(): the rows the query may return first, NoRecord when none      *)
ExistingRecords(recs, md5) ==
    LET same == {r \in recs : r.file_md5 = md5}
    IN  IF same = {} THEN {NoRecord}
        ELSE {r \in same : \A q \in same : q.expiry_time <= r.expiry_time}

(* bug: the UPDATE also rewrites upload_time *)
UpdateExpiry_touch(recs, md5, e) ==
    {IF r.file_md5 = md5
     THEN [r EXCEPT !.expiry_time = e, !.upload_time = e - file_expiry_days]
     ELSE r : r \in recs}

(* bug: the UPDATE has no where clause *)
UpdateExpiry_all(recs, md5, e) == {[r EXCEPT !.expiry_time = e] : r \in recs}

(* update(FileRecord).where(file_md5 == md5).values(expiry_time=e) *)
UpdateExpiry(recs, md5, e) ==
    {IF r.file_md5 = md5 THEN [r EXCEPT !.expiry_time = e] ELSE r : r \in recs}

(* bug: the row deletions of a sweep run never reach the table *)
DeleteRows_lost(recs, ids) == recs

(* the flushed session.delete(...) of a sweep run, by primary key *)
DeleteRows(recs, ids) == {r \in recs : r.id \notin ids}

(* the file system *)
Exists(dsk, path) == path \in DOMAIN dsk

(* bug: the last byte of the body is not written *)
WriteFile_short(dsk, path, bytes) ==
    [p \in DOMAIN dsk \cup {path} |->
        IF p = path THEN SubSeq(bytes, 1, Len(bytes) - 1) ELSE dsk[p]]

WriteFile(dsk, path, bytes) ==
    [p \in DOMAIN dsk \cup {path} |-> IF p = path THEN bytes ELSE dsk[p]]
Unlink(dsk, paths) == [p \in DOMAIN dsk \ paths |-> dsk[p]]

----------------------------------------------------------------------------
(* Initial state: empty table, empty upload directory, nothing running *)

IdleUp == [pc |-> "idle"]
IdleSw == [pc |-> "idle"]

InitState ==
    /\ now = 0
    /\ records = {}
    /\ disk = << >>
    /\ dbLock = NoLock
    /\ up = [u \in Uploaders |-> IdleUp]
    /\ sw = [j \in Jobs |-> IdleSw]
    /\ resp = NoResp
    /\ uploaded = [c \in Codes |-> NoUpload]

Init == InitState /\ lastSweep = NotRecorded /\ sched = NoScheduler

(* the same start, with the history of sweep runs recorded *)
InitRecorded == InitState /\ lastSweep = NoSweep /\ sched = NoScheduler

UploadsIdle == \A u \in Uploaders : up[u].pc = "idle"
SweepsIdle == \A j \in Jobs : sw[j].pc = "idle"
Quiet == UploadsIdle /\ SweepsIdle
InFlight == Cardinality({u \in Uploaders : up[u].pc # "idle"})

(* the clock advances: a day ends, and the time of the daily job of a *)
(* running scheduler comes (scheduler.py:96-103, cron at 2:00)          *)
Tick ==
    /\ now < MaxTime
    /\ now' = now + 1
    /\ resp' = NoResp
    /\ uploaded' = [c \in Codes |->
                      IF uploaded[c] # NoUpload /\ uploaded[c].expiry_time < now'
                      THEN NoUpload ELSE uploaded[c]]
    /\ sched' = IF sched.state = "running"
                THEN [sched EXCEPT !.due = @ \cup {DailyJob}]
                ELSE sched
    /\ UNCHANGED <<records, disk, dbLock, up, sw, lastSweep>>

----------------------------------------------------------------------------
(* app/routers/upload.py: upload_file *)

(* bug: a body of exactly max_file_size bytes is refused *)
TooLarge_ge(file_size) == file_size >= max_file_size

TooLarge(file_size) == file_size > max_file_size

(* line 79-80: the display name *)
SafeFilename(fname) ==
    sanitize_filename(IF fname = << >> THEN Str_unnamed ELSE fname)

(* lines 45-80: read the body, check its size, hash it, look for the      *)
(* digest; maxrows bounds the rows of the table plus the uploads in flight *)
UploadRead(u, requests, maxrows) ==
    /\ up[u].pc = "idle"
    /\ \A v \in EarlierSlots(u) : up[v].pc # "idle"
    /\ \E req \in requests :
         LET file_content == req[1]
             fname == req[2]
             file_md5 == calculate_md5_from_bytes(file_content)
         IN  IF TooLarge(Len(file_content))
             THEN /\ resp' = [op |-> "upload", status |-> 413,
                              content |-> file_content, fname |-> fname]
                  /\ UNCHANGED <<now, records, disk, dbLock, up, sw, uploaded, lastSweep, sched>>
             ELSE /\ Cardinality(records) + InFlight < maxrows
                  /\ \E existing_record \in ExistingRecords(records, file_md5) :
                       up' = [up EXCEPT ![u] =
                               [pc |-> "code",
                                content |-> file_content,
                                fname |-> fname,
                                file_size |-> Len(file_content),
                                file_md5 |-> file_md5,
                                existing_record |-> existing_record,
                                safe_filename |-> SafeFilename(fname)]]
                  /\ resp' = NoResp
                  /\ UNCHANGED <<now, records, disk, dbLock, sw, uploaded, lastSweep, sched>>

UploadBegin(u, requests) == UploadRead(u, requests, MaxRecords)

(* f"{timestamp}_{share_code}_{safe_filename}" under upload_dir/%Y/%m/%d *)
StoredFilename(upload_time, share_code, safe_filename) ==
    <<upload_time, share_code, safe_filename>>
StoragePath(upload_time, stored_filename) == <<upload_time, stored_filename>>

(* lines 82-116: draw share codes until one is not in the table; then take *)
(* upload_time and expiry_time from the clock and either reuse the stored  *)
(* file of the digest or write the body to a new file                      *)
UploadCode(u) ==
    LET l == up[u]
        ex == l.existing_record
        expiry_time == now + file_expiry_days
    IN  /\ l.pc = "code"
        /\ \E share_code \in Codes :
             IF RecordByCode(records, share_code) # NoRecord
             THEN UNCHANGED <<up, disk>>
             ELSE LET stored_filename ==
                          IF ex # NoRecord THEN ex.filename
                          ELSE StoredFilename(now, share_code, l.safe_filename)
                      file_path ==
                          IF ex # NoRecord THEN ex.file_path
                          ELSE StoragePath(now, stored_filename)
                  IN  /\ up' = [up EXCEPT ![u] =
                                 [pc |-> IF ex # NoRecord /\ expiry_time > ex.expiry_time
                                         THEN "update" ELSE "commit",
                                  content |-> l.content,
                                  fname |-> l.fname,
                                  file_size |-> l.file_size,
                                  file_md5 |-> l.file_md5,
                                  existing_record |-> ex,
                                  safe_filename |-> l.safe_filename,
                                  share_code |-> share_code,
                                  upload_time |-> now,
                                  expiry_time |-> expiry_time,
                                  filename |-> stored_filename,
                                  file_path |-> file_path,
                                  extend |-> FALSE]]
                      /\ disk' = IF ex = NoRecord
                                 THEN WriteFile(disk, file_path, l.content)
                                 ELSE disk
        /\ resp' = NoResp
        /\ UNCHANGED <<now, records, dbLock, sw, uploaded, lastSweep, sched>>

(* lines 105-116 when mkdir, open or write raises: the handler ends with *)
(* the exception, nothing is added to its session and nothing committed; *)
(* the file is absent or holds the bytes written before the failure (the *)
(* model keeps the upload directory to MaxRecords files)                 *)
UploadWriteFail(u) ==
    LET l == up[u]
    IN  /\ l.pc = "code"
        /\ l.existing_record = NoRecord
        /\ \E share_code \in Codes :
             /\ RecordByCode(records, share_code) = NoRecord
             /\ LET file_path == StoragePath(now,
                                     StoredFilename(now, share_code, l.safe_filename))
                IN  \/ disk' = disk
                    \/ /\ Cardinality(DOMAIN disk) < MaxRecords
                       /\ \E n \in 0..(Len(l.content) - 1) :
                             disk' = WriteFile(disk, file_path,
                                               SubSeq(l.content, 1, n))
        /\ up' = [up EXCEPT ![u] = IdleUp]
        /\ resp' = [op |-> "upload", status |-> 500,
                    content |-> l.content, fname |-> l.fname,
                    error |-> "OSError"]
        /\ UNCHANGED <<now, records, dbLock, sw, uploaded, lastSweep, sched>>

(* lines 100-104: the UPDATE of the expiry of the digest's rows executes *)
UploadUpdate(u) ==
    /\ up[u].pc = "update"
    /\ dbLock \in {NoLock, u}
    /\ dbLock' = u
    /\ up' = [up EXCEPT ![u].pc = "commit", ![u].extend = TRUE]
    /\ resp' = NoResp
    /\ UNCHANGED <<now, records, disk, sw, uploaded, lastSweep, sched>>

(* lines 118-155: insert the new row, commit, answer *)
UploadCommit(u) ==
    LET l == up[u]
        extended == IF l.extend THEN UpdateExpiry(records, l.file_md5, l.expiry_time)
                    ELSE records
        times == FileRecordInit([upload_time |-> l.upload_time,
                                 expiry_time |-> l.expiry_time], now)
        file_record == FileRecord(NextId(records), l.filename, l.safe_filename,
                                  l.share_code, times.upload_time, times.expiry_time,
                                  l.file_path, l.file_size, l.file_md5)
    IN  /\ l.pc = "commit"
        /\ dbLock \in {NoLock, u}
        /\ dbLock' = NoLock
        /\ up' = [up EXCEPT ![u] = IdleUp]
        /\ IF UniqueViolation(records, l.share_code)
           THEN /\ resp' = [op |-> "upload", status |-> 500,
                            content |-> l.content, fname |-> l.fname,
                            error |-> "IntegrityError"]
                /\ UNCHANGED <<records, uploaded, lastSweep, sched>>
           ELSE /\ records' = extended \cup {file_record}
                /\ resp' = [op |-> "upload", status |-> 200,
                            content |-> l.content, fname |-> l.fname,
                            share_code |-> l.share_code,
                            filename |-> l.safe_filename,
                            file_size |-> l.file_size,
                            upload_time |-> l.upload_time,
                            expiry_time |-> file_record.expiry_time]
                /\ uploaded' = [uploaded EXCEPT ![l.share_code] =
                                  [status |-> 200, content |-> l.content,
                                   fname |-> l.fname,
                                   expiry_time |-> file_record.expiry_time]]
                /\ lastSweep' = IF lastSweep.recorded THEN NoSweep ELSE lastSweep
        /\ UNCHANGED <<now, disk, sw, sched>>

----------------------------------------------------------------------------
(* app/routers/download.py: get_file_info and download_file *)

(* bug: the file is looked for before the expiry is checked *)
get_file_info_status_swapped(recs, dsk, t, share_code) ==
    LET file_record == RecordByCode(recs, share_code)
    IN  IF file_record = NoRecord THEN 404
        ELSE IF ~Exists(dsk, file_record.file_path) THEN 404
        ELSE IF file_record.expiry_time < t THEN 410
        ELSE 200

(* lines 35-55: the checks of get_file_info, in the order of the code *)
get_file_info_status(recs, dsk, t, share_code) ==
    LET file_record == RecordByCode(recs, share_code)
    IN  IF file_record = NoRecord THEN 404
        ELSE IF file_record.expiry_time < t THEN 410
        ELSE IF ~Exists(dsk, file_record.file_path) THEN 404
        ELSE 200

(* bug: the download does not check the expiry *)
download_file_status_noexpiry(recs, dsk, t, share_code) ==
    LET file_record == RecordByCode(recs, share_code)
    IN  IF file_record = NoRecord THEN 404
        ELSE IF ~Exists(dsk, file_record.file_path) THEN 404
        ELSE 200

(* lines 81-100: the checks of download_file, in the order of the code *)
download_file_status(recs, dsk, t, share_code) ==
    LET file_record == RecordByCode(recs, share_code)
    IN  IF file_record = NoRecord THEN 404
        ELSE IF file_record.expiry_time < t THEN 410
        ELSE IF ~Exists(dsk, file_record.file_path) THEN 404
        ELSE 200

(* line 115: the Content-Disposition header carries original_filename *)
ContentDisposition(file_record) == file_record.original_filename

GetFileInfo(share_code) ==
    LET file_record == RecordByCode(records, share_code)
        status == get_file_info_status(records, disk, now, share_code)
    IN  /\ resp' = IF status = 200
                   THEN [op |-> "info", code |-> share_code, status |-> 200,
                         filename |-> file_record.original_filename,
                         file_size |-> file_record.file_size,
                         upload_time |-> file_record.upload_time,
                         expiry_time |-> file_record.expiry_time]
                   ELSE [op |-> "info", code |-> share_code, status |-> status]
        /\ UNCHANGED <<now, records, disk, dbLock, up, sw, uploaded, lastSweep, sched>>

(* bug: a served download consumes its record *)
DownloadFile_once(share_code) ==
    LET file_record == RecordByCode(records, share_code)
        status == download_file_status(records, disk, now, share_code)
    IN  /\ resp' = [op |-> "download", code |-> share_code, status |-> status]
        /\ records' = IF status = 200 THEN records \ {file_record} ELSE records
        /\ UNCHANGED <<now, disk, dbLock, up, sw, uploaded, lastSweep, sched>>

DownloadFile(share_code) ==
    LET file_record == RecordByCode(records, share_code)
        status == download_file_status(records, disk, now, share_code)
    IN  /\ resp' = IF status = 200
                   THEN [op |-> "download", code |-> share_code, status |-> 200,
                         body |-> disk[file_record.file_path],
                         content_length |-> file_record.file_size,
                         content_disposition |-> ContentDisposition(file_record)]
                   ELSE [op |-> "download", code |-> share_code, status |-> status]
        /\ UNCHANGED <<now, records, disk, dbLock, up, sw, uploaded, lastSweep, sched>>

----------------------------------------------------------------------------
(* app/utils/scheduler.py: FileCleanupScheduler._cleanup_with_session *)

(* bug: the select has no where clause *)
ExpiredFiles_all(recs, t) == recs

(* bug: a row expiring exactly at the run's time is selected as expired *)
ExpiredFiles_le(recs, t) == {r \in recs : r.expiry_time <= t}

(* line 46: select(FileRecord).where(expiry_time < now) *)
ExpiredFiles(recs, t) == {r \in recs : r.expiry_time < t}

(* bug: a row expiring exactly at the run's time is not counted as live *)
OtherShares_strict(recs, file_record, t) ==
    {r \in recs : /\ r.file_md5 = file_record.file_md5
                  /\ r.expiry_time > t
                  /\ r.id # file_record.id}

(* lines 56-62: the other rows of the digest that have not expired *)
OtherShares(recs, file_record, t) ==
    {r \in recs : /\ r.file_md5 = file_record.file_md5
                  /\ r.expiry_time >= t
                  /\ r.id # file_record.id}

(* lines 43-50: read the clock, select the expired rows.  skipped: the   *)
(* rows whose processing raised (line 72); failed: the marked paths whose *)
(* deletion raised (line 83)                                              *)
SweepRun(j) ==
    /\ sw[j].pc = "idle"
    /\ sw' = [sw EXCEPT ![j] =
               [pc |-> IF ExpiredFiles(records, now) = {} THEN "commit" ELSE "check",
                now |-> now,
                expired_files |-> ExpiredFiles(records, now),
                todo |-> ExpiredFiles(records, now),
                files_to_delete |-> {},
                deleted |-> {},
                unlinked |-> {},
                skipped |-> {},
                failed |-> {}]]
    /\ resp' = NoResp
    /\ UNCHANGED <<now, records, disk, dbLock, up, uploaded, lastSweep>>

(* a run begun by the schedule of the specification *)
SweepBegin(j) == SweepRun(j) /\ UNCHANGED sched

(* lines 53-84, one iteration: the query flushes the deletes made so far, *)
(* then the row's path is marked unless the digest has a live row, and    *)
(* the row is deleted in the session; after the last row every marked     *)
(* path that exists is unlinked                                           *)
SweepCheck(j) ==
    /\ sw[j].pc = "check"
    /\ IF sw[j].deleted # {}
       THEN /\ dbLock \in {NoLock, j}
            /\ dbLock' = j
       ELSE UNCHANGED dbLock
    /\ \E file_record \in sw[j].todo :
         LET other_shares == OtherShares(DeleteRows(records, sw[j].deleted),
                                         file_record, sw[j].now)
             files_to_delete ==
                 IF other_shares = {}
                 THEN sw[j].files_to_delete \cup {file_record.file_path}
                 ELSE sw[j].files_to_delete
             last == sw[j].todo = {file_record}
         IN  /\ sw' = [sw EXCEPT
                         ![j].todo = @ \ {file_record},
                         ![j].files_to_delete = files_to_delete,
                         ![j].deleted = @ \cup {file_record.id},
                         ![j].unlinked = IF last THEN files_to_delete \cap DOMAIN disk
                                         ELSE @,
                         ![j].pc = IF last THEN "commit" ELSE "check"]
             /\ disk' = IF last THEN Unlink(disk, files_to_delete) ELSE disk
    /\ resp' = NoResp
    /\ UNCHANGED <<now, records, up, uploaded, lastSweep, sched>>

(* bug: the file is unlinked without asking whether it exists, so that a *)
(* marked path that is absent raises                                     *)
UnlinkErrors_noexists(dsk, paths, kept) ==
    {p \in paths : ~Exists(dsk, p) \/ p \in kept}

(* lines 77-84: the marked paths whose deletion raises, kept being the   *)
(* files that cannot be unlinked; an absent path is passed over          *)
UnlinkErrors(dsk, paths, kept) == {p \in paths : Exists(dsk, p) /\ p \in kept}

(* bug: the first deletion that raises ends the loop *)
Unlinked_abort(dsk, paths, errors) ==
    IF errors = {} THEN paths \cap DOMAIN dsk ELSE {}

(* lines 77-84: the files the loop unlinks *)
Unlinked(dsk, paths, errors) == (paths \cap DOMAIN dsk) \ errors

(* bug: the file is unlinked in the loop over the rows, once for every *)
(* row that is deleted with the path marked                              *)
UnlinkCalls_perrow(rows, paths, attempted) ==
    [p \in paths |-> Cardinality({r \in rows : r.file_path = p})]

(* lines 51 and 77-81: files_to_delete is a set, the loop visits a marked *)
(* path once however many rows marked it, and calls unlink() when the     *)
(* path exists (attempted: the paths unlinked and those whose unlink      *)
(* raised); rows are the rows deleted by the run                          *)
UnlinkCalls(rows, paths, attempted) ==
    [p \in paths |-> IF p \in attempted THEN 1 ELSE 0]

(* lines 53-84, one iteration in which the query of line 61 raises         *)
(* (raised: the row is left as it is and the loop goes on, lines 72-74),   *)
(* or, after the last row, the deletion of some marked files raises (kept) *)
SweepCheckFault(j) ==
    /\ sw[j].pc = "check"
    /\ \E file_record \in sw[j].todo, raised \in BOOLEAN, kept \in SUBSET DOMAIN disk :
         LET other_shares == OtherShares(DeleteRows(records, sw[j].deleted),
                                         file_record, sw[j].now)
             files_to_delete ==
                 IF ~raised /\ other_shares = {}
                 THEN sw[j].files_to_delete \cup {file_record.file_path}
                 ELSE sw[j].files_to_delete
             last == sw[j].todo = {file_record}
             errors == UnlinkErrors(disk, files_to_delete, kept)
             unlinked == Unlinked(disk, files_to_delete, errors)
         IN  /\ raised \/ (last /\ errors # {})
             /\ last => kept \subseteq files_to_delete
             /\ ~last => kept = {}
             /\ IF ~raised /\ sw[j].deleted # {}
                THEN /\ dbLock \in {NoLock, j}
                     /\ dbLock' = j
                ELSE UNCHANGED dbLock
             /\ sw' = [sw EXCEPT
                         ![j].todo = @ \ {file_record},
                         ![j].files_to_delete = files_to_delete,
                         ![j].deleted = IF raised THEN @ ELSE @ \cup {file_record.id},
                         ![j].skipped = IF raised THEN @ \cup {file_record} ELSE @,
                         ![j].unlinked = IF last THEN unlinked ELSE @,
                         ![j].failed = IF last THEN errors ELSE @,
                         ![j].pc = IF last THEN "commit" ELSE "check"]
             /\ disk' = IF last THEN Unlink(disk, unlinked) ELSE disk
    /\ resp' = NoResp
    /\ UNCHANGED <<now, records, up, uploaded, lastSweep, sched>>

(* lines 43-47 and 89-91: the query for the expired rows raises; the run *)
(* logs the error, rolls back and ends                                  *)
SweepBeginFail(j) ==
    /\ sw[j].pc = "idle"
    /\ resp' = [op |-> "sweep", now |-> now, committed |-> FALSE,
                deleted_count |-> 0,
                files_to_delete |-> {},
                unlinked |-> {},
                expired_files |-> {},
                skipped |-> {},
                failed |-> {},
                unlink_calls |-> << >>]
    /\ UNCHANGED <<now, records, disk, dbLock, up, sw, uploaded, lastSweep, sched>>

(* lines 86-87: commit the row deletions *)
SweepCommit(j) ==
    /\ sw[j].pc = "commit"
    /\ dbLock \in {NoLock, j}
    /\ dbLock' = NoLock
    /\ records' = DeleteRows(records, sw[j].deleted)
    /\ resp' = [op |-> "sweep", now |-> sw[j].now, committed |-> TRUE,
                deleted_count |-> Cardinality(sw[j].deleted),
                files_to_delete |-> sw[j].files_to_delete,
                unlinked |-> sw[j].unlinked,
                expired_files |-> sw[j].expired_files,
                skipped |-> sw[j].skipped,
                failed |-> sw[j].failed,
                unlink_calls |-> UnlinkCalls(sw[j].expired_files \ sw[j].skipped,
                                             sw[j].files_to_delete,
                                             sw[j].unlinked \cup sw[j].failed)]
    /\ sw' = [sw EXCEPT ![j] = IdleSw]
    /\ lastSweep' = IF lastSweep.recorded THEN SweptAt(lastSweep, sw[j].now)
                    ELSE lastSweep
    /\ UNCHANGED <<now, disk, up, uploaded, sched>>

(* bug: the failed commit is not rolled back, the write lock stays held *)
SweepCommitFail_held(j) ==
    /\ sw[j].pc = "commit"
    /\ dbLock' = j
    /\ resp' = [op |-> "sweep", now |-> sw[j].now, committed |-> FALSE,
                deleted_count |-> Cardinality(sw[j].deleted),
                files_to_delete |-> sw[j].files_to_delete,
                unlinked |-> sw[j].unlinked,
                expired_files |-> sw[j].expired_files,
                skipped |-> sw[j].skipped,
                failed |-> sw[j].failed,
                unlink_calls |-> UnlinkCalls(sw[j].expired_files \ sw[j].skipped,
                                             sw[j].files_to_delete,
                                             sw[j].unlinked \cup sw[j].failed)]
    /\ sw' = [sw EXCEPT ![j] = IdleSw]
    /\ lastSweep' = IF lastSweep.recorded THEN NoSweep ELSE lastSweep
    /\ UNCHANGED <<now, records, disk, up, uploaded, sched>>

(* lines 86-91: session.commit() raises (the database is locked or cannot *)
(* be written); the run logs the error and rolls its session back        *)
SweepCommitFail(j) ==
    /\ sw[j].pc = "commit"
    /\ dbLock' = IF dbLock = j THEN NoLock ELSE dbLock
    /\ resp' = [op |-> "sweep", now |-> sw[j].now, committed |-> FALSE,
                deleted_count |-> Cardinality(sw[j].deleted),
                files_to_delete |-> sw[j].files_to_delete,
                unlinked |-> sw[j].unlinked,
                expired_files |-> sw[j].expired_files,
                skipped |-> sw[j].skipped,
                failed |-> sw[j].failed,
                unlink_calls |-> UnlinkCalls(sw[j].expired_files \ sw[j].skipped,
                                             sw[j].files_to_delete,
                                             sw[j].unlinked \cup sw[j].failed)]
    /\ sw' = [sw EXCEPT ![j] = IdleSw]
    /\ lastSweep' = IF lastSweep.recorded THEN NoSweep ELSE lastSweep
    /\ UNCHANGED <<now, records, disk, up, uploaded, sched>>

----------------------------------------------------------------------------
(* app/main.py: the route table, in the order of registration, and the     *)
(* liveness endpoint.  A path is the sequence of its segments; "{}" in a   *)
(* route's path stands for a path parameter.                               *)

Route(methods, path, endpoint) ==
    [kind |-> "route", methods |-> methods, path |-> path, endpoint |-> endpoint]
Mount(path, endpoint) ==
    [kind |-> "mount", methods |-> {}, path |-> path, endpoint |-> endpoint]

(* lines 86-139 *)
Routes(static_dir_exists) ==
    <<Mount(<<"static">>, "static"),
      Route({"POST"}, <<"api", "upload">>, "upload_file"),
      Route({"GET"}, <<"api", "upload", "progress", "{}">>, "upload_progress"),
      Route({"GET"}, <<"api", "file", "{}">>, "get_file_info"),
      Route({"GET"}, <<"api", "download", "{}">>, "download_file"),
      Route({"GET"}, <<"api", "download", "progress", "{}">>, "download_progress"),
      Route({"GET"}, << >>, "home"),
      Route({"GET"}, <<"download.html">>, "download_page"),
      Route({"GET"}, <<"index.html">>, "index_redirect")>>
    \o (IF static_dir_exists THEN <<Mount(<< >>, "static_root")>> ELSE << >>)
    \o <<Route({"GET"}, <<"health">>, "health_check")>>

(* starlette: a mount matches every path under its prefix, a route the  *)
(* paths of its pattern                                                 *)
PathMatches(route, path) ==
    IF route.kind = "mount"
    THEN /\ Len(path) >= Len(route.path)
         /\ SubSeq(path, 1, Len(route.path)) = route.path
    ELSE /\ Len(path) = Len(route.path)
         /\ \A i \in 1..Len(path) : route.path[i] \in {"{}", path[i]}

FullMatch(route, method, path) ==
    /\ PathMatches(route, path)
    /\ route.kind = "route" => method \in route.methods

NotFound == "not_found"
MethodNotAllowed == "method_not_allowed"

(* starlette Router: the first route that matches in full takes the      *)
(* request; failing that, a route that matches but for the method        *)
Dispatch(routes, method, path) ==
    LET full == {i \in 1..Len(routes) : FullMatch(routes[i], method, path)}
        partial == {i \in 1..Len(routes) : PathMatches(routes[i], path)}
    IN  IF full # {}
        THEN routes[CHOOSE i \in full : \A k \in full : i <= k].endpoint
        ELSE IF partial # {} THEN MethodNotAllowed ELSE NotFound

HealthPath == <<"health">>
HealthyBody == [status |-> "healthy", service |-> "FilePulse"]
NoBody == [status |-> "none", service |-> "none"]
FileBody == [status |-> "file", service |-> "static"]

(* the files the static directory may hold beside the pages *)
StaticDirs == SUBSET {<<"health">>, <<"style.css">>}

(* GET /health: the answer of the endpoint that takes the request;       *)
(* StaticFiles (html=True) answers with the file of that path or 404     *)
HealthCheck ==
    /\ \E static_dir_exists \in BOOLEAN, static_files \in StaticDirs :
         LET endpoint == Dispatch(Routes(static_dir_exists), "GET", HealthPath)
         IN  resp' = [op |-> "health",
                      static_dir_exists |-> static_dir_exists,
                      endpoint |-> endpoint,
                      status |-> IF endpoint = "health_check" THEN 200
                                 ELSE IF endpoint = "static_root"
                                         /\ HealthPath \in static_files THEN 200
                                 ELSE IF endpoint = MethodNotAllowed THEN 405
                                 ELSE 404,
                      body |-> IF endpoint = "health_check" THEN HealthyBody
                               ELSE IF endpoint = "static_root"
                                       /\ HealthPath \in static_files THEN FileBody
                               ELSE NoBody]
    /\ UNCHANGED <<now, records, disk, dbLock, up, sw, uploaded, lastSweep, sched>>

----------------------------------------------------------------------------
(* app/main.py lifespan and scheduler.py start/shutdown: the scheduler *)

(* bug: start() adds the daily job only *)
JobsAtStart_daily == {}

(* scheduler.py:105-111: the job whose run time is the time of start() *)
JobsAtStart == {StartupJob}

(* main.py:51, scheduler.py:93-114: the two jobs are added and the        *)
(* scheduler started; the startup job is due at once, the daily job when  *)
(* the day ends                                                           *)
AppStart ==
    /\ sched.state = "stopped"
    /\ sched' = [state |-> "running", due |-> JobsAtStart, started_at |-> now,
                 begun |-> [j \in Jobs |-> 0]]
    /\ resp' = NoResp
    /\ UNCHANGED <<now, records, disk, dbLock, up, sw, uploaded, lastSweep>>

(* the running scheduler processes a due job: it begins a run of it,      *)
(* unless a run of the same job is still going on (max_instances is 1 for *)
(* each job), in which case this run time is skipped                      *)
JobFire(j) ==
    /\ sched.state = "running"
    /\ j \in sched.due
    /\ IF sw[j].pc = "idle"
       THEN /\ SweepRun(j)
            /\ sched' = [sched EXCEPT !.due = @ \ {j}, !.begun[j] = @ + 1]
       ELSE /\ sched' = [sched EXCEPT !.due = @ \ {j}]
            /\ resp' = NoResp
            /\ UNCHANGED <<now, records, disk, dbLock, up, sw, uploaded, lastSweep>>

(* main.py:57, scheduler.py:116-119: the scheduler is shut down; no job   *)
(* is due any more, and the executor cancels the runs that are going on,  *)
(* whose sessions roll back as they are closed                            *)
AppShutdown ==
    /\ sched.state = "running"
    /\ sched' = [sched EXCEPT !.state = "shutdown", !.due = {}]
    /\ sw' = [j \in Jobs |-> IdleSw]
    /\ dbLock' = IF dbLock \in Jobs THEN NoLock ELSE dbLock
    /\ resp' = NoResp
    /\ UNCHANGED <<now, records, disk, up, uploaded, lastSweep>>


----------------------------------------------------------------------------
(* The schedules *)

(* upload requests: every body with every filename; under interleaving one *)
(* body and one filename, the races being those on one digest              *)
Requests == Contents \X FileNames
ConcRequests == { <<1>> } \X { <<".", ".", "/", "b", "?">> }
FaultRequests == { <<1, 1>> } \X { <<".", ".", "/", "b", "?">> }

UploadStep ==
    \E u \in Uploaders : UploadCode(u) \/ UploadUpdate(u) \/ UploadCommit(u)

(* the schedules below take the runs of the daily job: the two jobs run *)
(* the same code, and in these schedules a run overlaps no other run    *)
SweepStep == SweepCheck(DailyJob) \/ SweepCommit(DailyJob)

(* every operation runs alone *)
Next ==
    \/ Tick
    \/ Quiet /\ \E u \in Uploaders : UploadBegin(u, Requests)
    \/ UploadStep
    \/ Quiet /\ SweepBegin(DailyJob)
    \/ SweepStep
    \/ Quiet /\ \E c \in Codes : GetFileInfo(c)
    \/ Quiet /\ \E c \in Codes : DownloadFile(c)

Spec == Init /\ [][Next]_vars

(* uploads interleave, a sweep run runs alone *)
NextUploads ==
    \/ Tick
    \/ SweepsIdle /\ \E u \in Uploaders : UploadBegin(u, ConcRequests)
    \/ UploadStep
    \/ UploadsIdle /\ SweepBegin(DailyJob)
    \/ SweepStep
    \/ Quiet /\ \E c \in Codes : GetFileInfo(c)
    \/ Quiet /\ \E c \in Codes : DownloadFile(c)

SpecUploads == Init /\ [][NextUploads]_vars

(* the same schedule, in which the daily job begins its runs and a run *)
(* and an upload that have begun take their steps                     *)
FairUploads ==
    /\ SpecUploads
    /\ WF_vars(UploadsIdle /\ SweepBegin(DailyJob))
    /\ WF_vars(SweepStep)
    /\ WF_vars(UploadStep)

(* the sweep interleaves with uploads, which arrive one at a time *)
NextConc ==
    \/ Tick
    \/ UploadsIdle /\ \E u \in Uploaders : UploadBegin(u, ConcRequests)
    \/ UploadStep
    \/ SweepBegin(DailyJob)
    \/ SweepStep
    \/ Quiet /\ \E c \in Codes : GetFileInfo(c)
    \/ Quiet /\ \E c \in Codes : DownloadFile(c)

SpecConc == Init /\ [][NextConc]_vars

(* every operation runs alone, uploads and sweep runs only, and the history *)
(* of the runs is recorded                                                  *)
NextSweeps ==
    \/ Tick
    \/ Quiet /\ \E u \in Uploaders : UploadBegin(u, Requests)
    \/ UploadStep
    \/ Quiet /\ SweepBegin(DailyJob)
    \/ SweepStep

SpecSweeps == InitRecorded /\ [][NextSweeps]_vars

(* the two jobs of start(): the startup job fires once when the process    *)
(* starts (nothing else is running then), the daily job whenever its time  *)
(* comes; the scheduler holds back a job only while an instance of that    *)
(* same job is running.  Uploads run alone, between runs.                  *)
SweepJobStep == \E j \in Jobs : SweepCheck(j) \/ SweepCommit(j)

NextJobs ==
    \/ Tick
    \/ Quiet /\ \E u \in Uploaders : UploadBegin(u, ConcRequests)
    \/ UploadStep
    \/ Quiet /\ SweepBegin(StartupJob)
    \/ UploadsIdle /\ SweepBegin(DailyJob)
    \/ SweepJobStep

SpecJobs == Init /\ [][NextJobs]_vars

(* the application from start to shutdown.  The scheduler wakes at a     *)
(* job's run time: a due job is processed before the clock advances, and *)
(* a run of the daily job ends within its day.  Uploads arrive one at a  *)
(* time, with one body.                                                  *)
InitApp == InitState /\ lastSweep = NotRecorded /\ sched = StoppedScheduler

NextApp ==
    \/ AppStart
    \/ sched.state # "stopped" /\ sched.due = {} /\ sw[DailyJob].pc = "idle" /\ Tick
    \/ UploadsIdle /\ \E u \in Uploaders : UploadBegin(u, ConcRequests)
    \/ UploadStep
    \/ \E j \in Jobs : JobFire(j)
    \/ SweepJobStep
    \/ AppShutdown

SpecApp == InitApp /\ [][NextApp]_vars

(* every operation runs alone and the clock advances between operations; *)
(* the statements of a sweep run may fail: the first query, the query    *)
(* for one row, the deletion of a file, the commit.  The fair schedule   *)
(* lets a run that has begun take its steps.                             *)
SweepRequests == { <<1>>, <<2>> } \X { <<"a">> }

NextSweepFaults ==
    \/ Quiet /\ Tick
    \/ Quiet /\ \E u \in Uploaders : UploadBegin(u, SweepRequests)
    \/ UploadStep
    \/ Quiet /\ SweepBegin(DailyJob)
    \/ SweepStep
    \/ Quiet /\ SweepBeginFail(DailyJob)
    \/ SweepCheckFault(DailyJob)
    \/ SweepCommitFail(DailyJob)

SpecSweepFaults == Init /\ [][NextSweepFaults]_vars

FairSweepFaults == SpecSweepFaults /\ WF_vars(SweepStep)

(* uploads of one body run alone, while the table has room for a row per *)
(* share code; an upload that can take a step takes one                  *)
NextCodes ==
    \/ Tick
    \/ Quiet /\ \E u \in Uploaders : UploadRead(u, ConcRequests, NumCodes + 1)
    \/ UploadStep

SpecCodes == Init /\ [][NextCodes]_vars

FairCodes == SpecCodes /\ WF_vars(UploadStep)

(* the daily schedule: a run of the daily job begins whenever the job is *)
(* idle, also while an upload is in flight; uploads arrive one at a time *)
(* and end within the day they arrive.  Fairness: the job begins its     *)
(* run, a run and an upload take their steps, and a run that waits for   *)
(* the write lock gets it when it is released again and again.           *)
NextDaily ==
    \/ UploadsIdle /\ Tick
    \/ UploadsIdle /\ \E u \in Uploaders : UploadBegin(u, ConcRequests)
    \/ UploadStep
    \/ SweepBegin(DailyJob)
    \/ SweepStep

SpecDaily == Init /\ [][NextDaily]_vars

FairDaily ==
    /\ SpecDaily
    /\ WF_vars(SweepBegin(DailyJob))
    /\ SF_vars(SweepStep)
    /\ WF_vars(UploadStep)

(* uploads of one body run alone as the clock advances, and records are *)
(* built outside requests with any of the time arguments                *)
NextModels ==
    \/ Tick
    \/ Quiet /\ \E u \in Uploaders : UploadBegin(u, ConcRequests)
    \/ UploadStep
    \/ NewFileRecord

SpecModels == Init /\ [][NextModels]_vars

(* operations run alone, on one body; the liveness endpoint is asked at *)
(* any time                                                              *)
NextHealth ==
    \/ Tick
    \/ Quiet /\ \E u \in Uploaders : UploadBegin(u, ConcRequests)
    \/ UploadStep
    \/ Quiet /\ SweepBegin(DailyJob)
    \/ SweepStep
    \/ HealthCheck

SpecHealth == Init /\ [][NextHealth]_vars

(* every operation runs alone; the disk write of an upload and the commit *)
(* of a sweep run may fail                                                *)
NextFaults ==
    \/ Tick
    \/ Quiet /\ \E u \in Uploaders : UploadBegin(u, FaultRequests)
    \/ UploadStep
    \/ \E u \in Uploaders : UploadWriteFail(u)
    \/ Quiet /\ SweepBegin(DailyJob)
    \/ SweepStep
    \/ SweepCommitFail(DailyJob)

SpecFaults == Init /\ [][NextFaults]_vars

(* configurations: every string of at most MaxSizeTextLen characters of  *)
(* SizeChars, the strings of the tests and of the documentation, and ints *)
SizeChars == {"1", "5", ".", " ", "k", "B", "m", "x"}
SizeVectors ==
    { <<"1", "0", "0", "M", "B">>, <<"1", "G", "B">>, <<"1", "g", "b">>,
      <<"5", "0", "0", "K", "B">>, <<"1", "0", "2", "4", "B">>,
      <<"2", "0", "4", "8">>, <<"1", " ", "G", "B">>, <<"TAB", "1", "G", "B", "LF">>,
      <<"1", ".", "5", "k", "B">>, <<"1", "G">>, <<"a", "b", "c">>, <<"-", "1">>, <<"1", "e", "3">>,
      <<"1", "0", "0", " ", "m", "b", "x">> }
SizeTexts == UNION {[1..n -> SizeChars] : n \in 0..MaxSizeTextLen} \cup SizeVectors
SizeValues ==
    {StrValue(s) : s \in SizeTexts} \cup {IntValue(n) : n \in {0, 1, 1048576}}

(* filenames: every string of at most MaxFileNameLen characters of        *)
(* NameChars (DEL is the character 0x7f), the names of the tests, and     *)
(* names around the length cap: a stem, and an extension after a dot      *)
NameChars == {"a", ".", " ", "-", "/", "\\", "<", ">", "?", "LF", "NUL", "DEL"}
Repeat(c, n) == [i \in 1..n |-> c]
StemLens == {1, MaxNameLen + 1}
ExtLens == {0, 3, MaxNameLen}
LongNames ==
    {Repeat("a", n) \o <<".">> \o Repeat("b", m) : n \in StemLens, m \in ExtLens}
        \cup {Repeat("a", n) : n \in StemLens}
NameVectors ==
    { <<".", ".", "/", ".", ".", "/", "e", "t", "c", "/", "p", "a", "s", "s", "w", "d">>,
      <<"t", "e", "s", "t", "<", "f", "i", "l", "e", ">", ".", "t", "x", "t">>,
      <<"<", "s", "c", "r", "i", "p", "t", ">", "x", "<", "/", "s", "c", "r", "i", "p", "t", ">", "r", ".", "t", "x", "t">>,
      <<"f", "i", "l", "e", " ", " ", " ", "n", "a", "m", "e", ".", "t", "x", "t">>,
      <<" ", " ", " ">>, <<"a", ":", "b", "|", "c", "*", "\"", "d">>, <<"a", "&", "b">> }
FileNameInputs ==
    UNION {[1..n -> NameChars] : n \in 0..MaxFileNameLen}
        \cup LongNames \cup NameVectors

NextSanitize == SanitizeFilename(FileNameInputs)

SpecSanitize == Init /\ [][NextSanitize]_vars

NextSecurity == GetClientIp

SpecSecurity == Init /\ [][NextSecurity]_vars

NextConfig == ParseFileSize(SizeValues)

SpecConfig == Init /\ [][NextConfig]_vars

----------------------------------------------------------------------------
(* Properties *)

IsRetrieval(r) == r.op \in {"info", "download"}
RowsOfCode(code) == {r \in records : r.share_code = code}

\* C1: under Spec (operations run alone), every record whose expiry_time is
\* not before the current time has the file at its file_path on disk.
C1_LiveRecordsHaveFile ==
    \A r \in records : r.expiry_time >= now => Exists(disk, r.file_path)

\* a sweep run has just removed a file while another record is still live
C1_Witness ==
    /\ resp.op = "sweep"
    /\ resp.unlinked # {}
    /\ \E r \in records : r.expiry_time >= now

\* C2: under SpecUploads (a sweep run runs alone), a run at time t deletes
\* the row of every record R with expiry_time < t, and it deletes R's file
\* exactly when no other record of R's file_md5 has expiry_time >= t; with
\* such a live sibling the file is still on disk after the run.
C2_SweepDeletesExpired ==
    [][resp'.op = "sweep" =>
         \A R \in records :
             R.expiry_time < resp'.now =>
                 LET live_sibling ==
                         \E S \in records : /\ S.id # R.id
                                            /\ S.file_md5 = R.file_md5
                                            /\ S.expiry_time >= resp'.now
                 IN  /\ \A S \in records' : S.id # R.id
                     /\ (R.file_path \in resp'.unlinked) <=> ~live_sibling
                     /\ live_sibling => Exists(disk', R.file_path)
                     /\ ~live_sibling => ~Exists(disk', R.file_path)]_vars

\* a run has deleted a row and kept its file for a live sibling
C2_Witness ==
    /\ resp.op = "sweep"
    /\ resp.deleted_count > 0
    /\ resp.files_to_delete = {}
    /\ \E r \in records : r.expiry_time >= resp.now /\ Exists(disk, r.file_path)

\* C3: under SpecConc, when an upload and a sweep run have interleaved and
\* both have finished, every record with expiry_time in the future has its
\* file on disk.
C3_RaceKeepsLiveFiles ==
    Quiet => \A r \in records : r.expiry_time > now => Exists(disk, r.file_path)

\* C4: under Spec, when a successful upload leaves several records of its
\* digest in the store, they have distinct share codes and one file_path, and
\* exactly one file on disk holds that content (the later upload wrote none).
C4_DedupOneBlob ==
    (resp.op = "upload" /\ resp.status = 200) =>
        LET same == {r \in records :
                        r.file_md5 = calculate_md5_from_bytes(resp.content)}
        IN  /\ \A r1, r2 \in same :
                  /\ r1.file_path = r2.file_path
                  /\ r1 # r2 => r1.share_code # r2.share_code
            /\ Cardinality({p \in DOMAIN disk : disk[p] = resp.content}) = 1

\* an upload of bytes that were already stored has just succeeded
C4_Witness ==
    /\ resp.op = "upload"
    /\ resp.status = 200
    /\ Cardinality({r \in records :
                       r.file_md5 = calculate_md5_from_bytes(resp.content)}) >= 2

\* C5: under SpecUploads (uploads interleave), the expiry_time of a record
\* never decreases while the record is in the store.
C5_ExpiryNeverDecreases ==
    [][\A r \in records : \A q \in records' :
           q.id = r.id => q.expiry_time >= r.expiry_time]_vars

\* C6: under SpecUploads, no two records have the same share_code, and the
\* share code returned by a successful upload identifies exactly one record.
C6_ShareCodesUnique ==
    /\ \A r1, r2 \in records : r1.share_code = r2.share_code => r1 = r2
    /\ (resp.op = "upload" /\ resp.status = 200) =>
           Cardinality(RowsOfCode(resp.share_code)) = 1

\* an upload has just lost the race for its share code to a concurrent one
C6_Witness ==
    /\ resp.op = "upload"
    /\ resp.status = 500
    /\ records # {}

\* C7: under Spec, a download by the share code of a successful upload of
\* bytes B with filename F, before the returned expiry, answers 200 with
\* body B, Content-Length Len(B) and Content-Disposition sanitize_filename(F).
C7_RoundTrip ==
    (/\ resp.op = "download"
     /\ uploaded[resp.code] # NoUpload
     /\ now <= uploaded[resp.code].expiry_time) =>
        /\ resp.status = 200
        /\ resp.body = uploaded[resp.code].content
        /\ resp.content_length = Len(uploaded[resp.code].content)
        /\ resp.content_disposition = sanitize_filename(uploaded[resp.code].fname)

\* C8: under SpecConc, a retrieval answers 404 when no record has the code,
\* 410 when the record's expiry_time is before the current time (file on
\* disk or not), 404 when the record is not expired and its file is missing,
\* and 200 otherwise.
C8_RetrievalOutcome ==
    IsRetrieval(resp) =>
        resp.status =
            IF RowsOfCode(resp.code) = {} THEN 404
            ELSE IF \E r \in RowsOfCode(resp.code) : r.expiry_time < now THEN 410
            ELSE IF \E r \in RowsOfCode(resp.code) : ~Exists(disk, r.file_path)
                 THEN 404
            ELSE 200

\* the info lookup has answered 404 for a live record whose file is missing
C8_Witness ==
    /\ resp.op = "info"
    /\ resp.status = 404
    /\ \E r \in RowsOfCode(resp.code) :
           r.expiry_time >= now /\ ~Exists(disk, r.file_path)

\* C9: under Spec, while a record with expiry_time before the current time
\* is still in the store, the info lookup and the download of its share code
\* answer 410.
C9_ExpiredReported ==
    (/\ IsRetrieval(resp)
     /\ \E r \in RowsOfCode(resp.code) : r.expiry_time < now) =>
        resp.status = 410

\* the download has answered 410 while the row and the file are still there
C9_Witness ==
    /\ resp.op = "download"
    /\ resp.status = 410
    /\ \E r \in RowsOfCode(resp.code) : Exists(disk, r.file_path)

\* C10: under Spec, an upload longer than max_file_size is answered 413 and
\* changes neither the store nor the disk; an upload of at most
\* max_file_size bytes is accepted.
C10_OversizeRejected ==
    [][resp'.op = "upload" =>
         IF Len(resp'.content) > max_file_size
         THEN /\ resp'.status = 413
              /\ records' = records
              /\ disk' = disk
         ELSE resp'.status = 200]_vars

\* an oversized upload has just been refused, the store holding records
C10_Witness ==
    /\ resp.op = "upload"
    /\ resp.status = 413
    /\ records # {}

\* C11: under SpecSweeps, when a sweep run commits after an earlier committed
\* run, with no upload between the two and no record whose expiry_time is at
\* or after the earlier run's time and before the later run's time, the later
\* run deletes no row and no file: the store and the disk are as they were
\* when it began.
C11_SecondSweepNoOp ==
    [][(/\ resp'.op = "sweep"
        /\ lastSweep.runs >= 1
        /\ ~\E r \in records : /\ lastSweep.now <= r.expiry_time
                                /\ r.expiry_time < resp'.now) =>
           /\ resp'.deleted_count = 0
           /\ resp'.files_to_delete = {}
           /\ resp'.unlinked = {}
           /\ records' = records]_vars

\* a second run has committed on a later day than the first, the store still
\* holding records
C11_Witness ==
    /\ resp.op = "sweep"
    /\ lastSweep.runs = 2
    /\ lastSweep.prev < lastSweep.now
    /\ records # {}

\* C12: under SpecUploads (a sweep run runs alone), a run at time t leaves
\* every record with expiry_time >= t in the store with all its fields as
\* they were.
C12_SweepKeepsLive ==
    [][resp'.op = "sweep" =>
         \A r \in records : r.expiry_time >= resp'.now => r \in records']_vars

\* a run has deleted a row and kept a record expiring exactly at its time
C12_Witness ==
    /\ resp.op = "sweep"
    /\ resp.deleted_count > 0
    /\ \E r \in records : r.expiry_time = resp.now

\* C13: under SpecJobs, at most one sweep run is executing at any time, also
\* when the daily job fires while the run of the startup job is in progress.
C13_OneSweepAtATime ==
    Cardinality({j \in Jobs : sw[j].pc # "idle"}) <= 1

\* C14: under SpecFaults, a sweep run has unlinked no file while its row
\* deletions are not committed, and a run whose commit failed leaves every
\* row in the store and has unlinked no file.
C14_UnlinkAfterCommit ==
    [][/\ \A j \in Jobs : sw'[j].pc # "idle" => sw'[j].unlinked = {}
       /\ (resp'.op = "sweep" /\ ~resp'.committed) =>
              /\ records' = records
              /\ resp'.unlinked = {}]_vars

\* C15: under SpecFaults, when an upload of content that no record holds
\* commits, the file at its record's file_path already holds the body; an
\* upload that ends in an error inserts no record; and whatever file a
\* committed record's file_path names holds bytes of the record's digest.
C15_WriteThenCommit ==
    [][/\ (/\ resp'.op = "upload"
           /\ resp'.status = 200
           /\ \A r \in records :
                  r.file_md5 # calculate_md5_from_bytes(resp'.content)) =>
              \A r \in records' \ records :
                  /\ Exists(disk, r.file_path)
                  /\ disk[r.file_path] = resp'.content
       /\ (resp'.op = "upload" /\ resp'.status = 500) => records' = records
       /\ \A r \in records' :
              Exists(disk', r.file_path) =>
                  calculate_md5_from_bytes(disk'[r.file_path]) = r.file_md5]_vars

\* an upload of new content has just committed, after a failed disk write
\* of an earlier upload left part of a body in a file that no record names
C15_Witness ==
    /\ resp.op = "upload"
    /\ resp.status = 200
    /\ Cardinality(records) = 1
    /\ \E p \in DOMAIN disk :
          /\ disk[p] # resp.content
          /\ \A r \in records : r.file_path # p

\* the records of the store after a step that the store before did not hold
NewRows == {q \in records' : \A r \in records : r.id # q.id}

\* C16 as stated: under Spec, every successful upload inserts exactly one new
\* record with its own share code and its own expiry, and leaves the
\* expiry_time of every earlier record as it was.
C16_UploadKeepsOtherExpiry ==
    [][(resp'.op = "upload" /\ resp'.status = 200) =>
         /\ Cardinality(NewRows) = 1
         /\ \A q \in NewRows : /\ q.share_code = resp'.share_code
                                /\ q.expiry_time = resp'.expiry_time
                                /\ \A r \in records : r.share_code # q.share_code
         /\ \A r \in records :
                \E q \in records' : q.id = r.id /\ q.expiry_time = r.expiry_time]_vars

\* C16 as amended: under Spec, every successful upload inserts exactly one new
\* record with its own share code and its own expiry (upload_time plus
\* file_expiry_days); when that expiry is later than the expiry_time of every
\* earlier record of the same digest, each of those records gets it as its
\* expiry_time and is otherwise unchanged; every other record is unchanged.
C16_UploadExtendsDigest ==
    [][(resp'.op = "upload" /\ resp'.status = 200) =>
         LET same == {r \in records :
                         r.file_md5 = calculate_md5_from_bytes(resp'.content)}
             later == \A r \in same : resp'.expiry_time > r.expiry_time
         IN  /\ Cardinality(NewRows) = 1
             /\ Cardinality(records') = Cardinality(records) + 1
             /\ \A q \in NewRows :
                    /\ q.share_code = resp'.share_code
                    /\ q.expiry_time = resp'.expiry_time
                    /\ q.expiry_time = q.upload_time + file_expiry_days
                    /\ \A r \in records : r.share_code # q.share_code
             /\ \A r \in records :
                    (IF r \in same /\ later
                     THEN [r EXCEPT !.expiry_time = resp'.expiry_time]
                     ELSE r) \in records']_vars

\* an upload of stored bytes has just succeeded and an earlier record of the
\* digest, uploaded on an earlier day, now expires with the new record, while
\* a record of another digest is in the store
C16_Witness ==
    /\ resp.op = "upload"
    /\ resp.status = 200
    /\ \E r \in records :
          /\ r.share_code # resp.share_code
          /\ r.file_md5 = calculate_md5_from_bytes(resp.content)
          /\ r.upload_time < resp.upload_time
          /\ r.expiry_time = resp.expiry_time
    /\ \E r \in records : r.file_md5 # calculate_md5_from_bytes(resp.content)

\* all characters of s at positions i..j are in cs
AllIn(s, i, j, cs) == \A k \in i..j : s[k] \in cs

\* the readings of s as a number (digits, optionally a dot and digits)
\* followed by an optional unit, white space around the two being ignored:
\* <<digits before the dot, digits after it, unit in capitals>>
SizeReadings(s) ==
    LET n == Len(s)
    IN  UNION {UNION {UNION {UNION {
          {<<SubSeq(s, a, b - 1), SubSeq(s, b + 1, c - 1),
             str_upper(SubSeq(s, d, n - t))>> :
               t \in {t \in 0..(n - d + 1) :
                         /\ AllIn(s, n - t + 1, n, WhitespaceChars)
                         /\ str_upper(SubSeq(s, d, n - t)) \in UnitNames \cup {<< >>}}} :
          d \in {d \in c..(n + 1) : AllIn(s, c, d - 1, WhitespaceChars)}} :
          c \in {c \in b..(n + 1) :
                    \/ c = b
                    \/ /\ c > b + 1
                       /\ s[b] = "."
                       /\ AllIn(s, b + 1, c - 1, Digits)}} :
          b \in {b \in (a + 1)..(n + 1) : AllIn(s, a, b - 1, Digits)}} :
          a \in {a \in 1..(n + 1) : AllIn(s, 1, a - 1, WhitespaceChars)}}

\* the number of a reading times its unit, as an integer
ReadingBytes(r) ==
    LET times == IF r[3] = <<"K", "B">> THEN 1024
                 ELSE IF r[3] = <<"M", "B">> THEN 1048576
                 ELSE IF r[3] = <<"G", "B">> THEN 1073741824
                 ELSE 1
    IN  (DecimalValue(r[1] \o r[2]) * times) \div Pow(10, Len(r[2]))

\* C17: under SpecConfig, parse_file_size maps an integer to itself and a
\* string that reads as a number followed by an optional unit B, KB, MB or GB
\* in either case (white space around the number and the unit being ignored)
\* to the number times 1, 1024, 1024^2 or 1024^3 as an integer; 100MB gives
\* 104857600 and 1GB gives 1073741824; every other string is an error.
C17_ParseFileSize ==
    resp.op = "parse_file_size" =>
        /\ resp.v.type = "int" => resp.result = ParsedSize(resp.v.val)
        /\ resp.v.type = "str" =>
              /\ resp.result.ok <=> SizeReadings(resp.v.val) # {}
              /\ \A r \in SizeReadings(resp.v.val) :
                     resp.result = ParsedSize(ReadingBytes(r))
        /\ resp.v = StrValue(<<"1", "0", "0", "M", "B">>) =>
              resp.result = ParsedSize(104857600)
        /\ resp.v = StrValue(<<"1", "G", "B">>) =>
              resp.result = ParsedSize(1073741824)

\* a number with a fraction and a unit in mixed case has been parsed
C17_Witness ==
    /\ resp.op = "parse_file_size"
    /\ resp.v = StrValue(<<"1", ".", "5", "k", "B">>)
    /\ resp.result = ParsedSize(1536)

\* C18: under SpecSanitize, the result of sanitize_filename has at most
\* MaxNameLen characters, and for a name of letters with one dot inside
\* that is longer than that, the result ends with the dot and the text after
\* it.
C18_LengthCapped ==
    resp.op = "sanitize_filename" =>
        /\ Len(resp.result) <= MaxNameLen
        /\ \A n \in StemLens, m \in ExtLens \ {0} :
              (/\ resp.filename = Repeat("a", n) \o <<".">> \o Repeat("b", m)
               /\ Len(resp.filename) > MaxNameLen) =>
                  /\ Len(resp.result) > m
                  /\ SubSeq(resp.result, Len(resp.result) - m, Len(resp.result))
                         = <<".">> \o Repeat("b", m)

\* C19: under SpecSanitize, the result of sanitize_filename contains none of
\* < > / \ : " | ? * and no control character, and is not the name '..'.
C19_NoDangerousChars ==
    resp.op = "sanitize_filename" =>
        /\ \A i \in 1..Len(resp.result) :
              resp.result[i] \notin DangerousChars \cup {"DEL"}
        /\ resp.result # <<".", ".">>

\* C20: under SpecSanitize, the result of sanitize_filename is neither empty
\* nor made of white space only, and it is unnamed_file whenever the cleaning
\* steps leave nothing, as they do for every name made only of forbidden
\* characters other than angle brackets, path separators, white space, dots
\* and hyphens.
C20_NeverEmpty ==
    resp.op = "sanitize_filename" =>
        /\ \E i \in 1..Len(resp.result) : resp.result[i] \notin WhitespaceChars
        /\ clean_name(resp.filename) = << >> => resp.result = Str_unnamed_file
        /\ (\A i \in 1..Len(resp.filename) :
                resp.filename[i] \in
                    (DangerousChars \ {"<", ">"}) \cup WhitespaceChars \cup StripChars)
              => resp.result = Str_unnamed_file

\* a traversal attempt without a name has been answered with the fallback
C20_Witness ==
    /\ resp.op = "sanitize_filename"
    /\ resp.filename = <<".", ".", "/">>
    /\ resp.result = Str_unnamed_file

\* C21: under SpecHealth, every GET of /health is taken by health_check and
\* answered with status 200 and the healthy body, in every state of the
\* table and of the upload directory.
C21_HealthAlwaysHealthy ==
    resp.op = "health" =>
        /\ resp.endpoint = "health_check"
        /\ resp.status = 200
        /\ resp.body = HealthyBody

\* C22: under SpecApp, once the scheduler has been started and has processed
\* what is due, one run of the startup job has begun, at the time of the
\* start, and one run of the daily job for each day that has ended since; a
\* job is due only while the scheduler runs, and once the scheduler is shut
\* down no run begins.
C22_StartupAndDaily ==
    /\ [](sched.state = "running" /\ sched.due = {} =>
             /\ sched.begun[StartupJob] = 1
             /\ sched.begun[DailyJob] = now - sched.started_at)
    /\ [](sched.due # {} => sched.state = "running")
    /\ [](StartupJob \in sched.due => now = sched.started_at)
    /\ [][sched.state = "shutdown" =>
             /\ sched'.begun = sched.begun
             /\ \A j \in Jobs : sw[j].pc = "idle" => sw'[j].pc = "idle"]_vars
    /\ [][\A j \in Jobs :
             sw[j].pc = "idle" /\ sw'[j].pc # "idle" =>
                 /\ j \in sched.due
                 /\ sched'.begun[j] = sched.begun[j] + 1]_vars

\* the scheduler has been shut down after a startup run and a daily run,
\* and a day has ended since
C22_Witness ==
    /\ sched.state = "shutdown"
    /\ sched.begun[StartupJob] = 1
    /\ sched.begun[DailyJob] = 1
    /\ now = sched.started_at + 2

\* C23: under SpecSweepFaults, a record whose processing raised in a run
\* keeps its file through the run's deletion of files and its row through
\* the run's commit, the run deletes every other expired record, and the
\* skipped record is expired for the next run.
C23_SkippedKeepsRowAndFile ==
    [][\A j \in Jobs :
          /\ (sw[j].pc = "check" /\ sw'[j].pc = "commit") =>
                /\ \A r \in sw'[j].skipped :
                      Exists(disk, r.file_path) => Exists(disk', r.file_path)
                /\ sw'[j].deleted =
                      {r.id : r \in sw'[j].expired_files \ sw'[j].skipped}
          /\ (sw[j].pc = "commit" /\ resp'.op = "sweep" /\ resp'.committed) =>
                \A r \in resp'.skipped :
                      /\ r \in records'
                      /\ r \in ExpiredFiles(records', now')]_vars

\* C24: under SpecSweepFaults, a run in which the deletion of a marked file
\* raised has unlinked every other marked file, goes on to its commit, and
\* its commit removes every row the run deleted.
C24_UnlinkFailureContinues ==
    [][\A j \in Jobs :
          /\ (sw[j].pc = "check" /\ sw'[j].pc = "commit" /\ sw'[j].failed # {}) =>
                \A p \in sw'[j].files_to_delete \ sw'[j].failed :
                      ~Exists(disk', p)
          /\ (sw[j].pc = "commit" /\ resp'.op = "sweep" /\ resp'.committed
                /\ resp'.failed # {}) =>
                /\ \A p \in resp'.files_to_delete \ resp'.failed : ~Exists(disk', p)
                /\ \A r \in resp'.expired_files \ resp'.skipped :
                      \A s \in records' : s.id # r.id]_vars

\* a run has committed two row deletions after failing to delete one file
\* and deleting another
C24_Witness ==
    /\ resp.op = "sweep"
    /\ resp.committed
    /\ resp.failed # {}
    /\ resp.unlinked # {}
    /\ resp.deleted_count = 2
    /\ \A p \in resp.failed : Exists(disk, p)

\* C25: under SpecSweepFaults, a marked path that is absent from disk raises
\* no error in the run, and a run that commits removes the row of every
\* expired record it did not skip, those whose file was absent included.
C25_MissingFileRowDeleted ==
    [][\A j \in Jobs :
          /\ (sw[j].pc = "check" /\ sw'[j].pc = "commit") =>
                \A p \in sw'[j].files_to_delete :
                      ~Exists(disk, p) => p \notin sw'[j].failed
          /\ (sw[j].pc = "commit" /\ resp'.op = "sweep" /\ resp'.committed) =>
                \A r \in resp'.expired_files \ resp'.skipped :
                      /\ r.file_path \notin resp'.failed \/ Exists(disk, r.file_path)
                      /\ \A s \in records' : s.id # r.id]_vars

\* a run has deleted the row of a record whose file was absent and the row
\* and the file of another record
C25_Witness ==
    /\ resp.op = "sweep"
    /\ resp.committed
    /\ resp.failed = {}
    /\ resp.skipped = {}
    /\ resp.files_to_delete \ resp.unlinked # {}
    /\ resp.unlinked # {}
    /\ resp.deleted_count = 2
    /\ records = {}

\* C26: under FairSweepFaults, a run that has begun ends: the job is idle
\* again; and a run that has ended, whatever it met, leaves the job idle
\* and without the write lock of the database.
C26_RunEnds ==
    /\ \A j \in Jobs : (sw[j].pc # "idle") ~> (sw[j].pc = "idle")
    /\ [](resp.op = "sweep" =>
            \A j \in Jobs : sw[j].pc = "idle" /\ dbLock # j)

\* a run that skipped a row and failed at its commit has ended
C26_Witness ==
    /\ resp.op = "sweep"
    /\ ~resp.committed
    /\ resp.skipped # {}
    /\ SweepsIdle

\* C27: under FairCodes, an upload that is selecting its share code leaves
\* the selection: with a code that no row has, or, when every code has a
\* row, by ending with an error.
C27_CodeSelectionEnds ==
    /\ \A u \in Uploaders : (up[u].pc = "code") ~> (up[u].pc # "code")
    /\ [][\A u \in Uploaders :
             up[u].pc = "code" /\ up'[u].pc \notin {"code", "idle"} =>
                 RecordByCode(records, up'[u].share_code) = NoRecord]_vars

\* C28: under FairDaily, when a run of the sweep has committed, no record
\* with expiry_time before the run's time is in the store; and a record
\* that is expired is eventually deleted or no longer expired.
C28_ExpiredEventuallyDeleted ==
    /\ [](resp.op = "sweep" /\ resp.committed =>
            \A r \in records : ~(r.expiry_time < resp.now))
    /\ \A c \in Codes :
          (\E r \in records : r.share_code = c /\ r.expiry_time < now)
              ~> ~(\E r \in records : r.share_code = c /\ r.expiry_time < now)

\* a run has deleted an expired record and left a record that is not expired
C28_Witness ==
    /\ resp.op = "sweep"
    /\ resp.committed
    /\ resp.deleted_count >= 1
    /\ \E r \in records : r.expiry_time >= now

\* C29: under SpecUploads, when an upload that found no record of its digest
\* ends while another upload of the same bytes that found none is in flight,
\* or after such an upload has committed its record, it succeeds, and then
\* every record of the digest points at a file on disk that holds the
\* uploaded bytes.
C29_BothUploadsSucceed ==
    [][\A u \in Uploaders :
          (/\ up[u].pc = "commit"
           /\ up'[u].pc = "idle"
           /\ up[u].existing_record = NoRecord
           /\ \/ \E r \in records : r.file_md5 = up[u].file_md5
              \/ \E v \in Uploaders \ {u} :
                     /\ up[v].pc # "idle"
                     /\ up[v].file_md5 = up[u].file_md5
                     /\ up[v].existing_record = NoRecord) =>
              /\ resp'.status = 200
              /\ \A r \in records' :
                     r.file_md5 = up[u].file_md5 =>
                         /\ Exists(disk', r.file_path)
                         /\ disk'[r.file_path] = up[u].content]_vars

\* C30: under Spec, when a successful upload finds records of its digest in
\* the store: if its expiry_time is later than the latest expiry_time among
\* them, then after it every record of the digest, the new one included, has
\* the new expiry_time and the records of other digests are as they were;
\* if it is not later, every earlier record is as it was.
C30_ExtendOnDuplicate ==
    [][(resp'.op = "upload" /\ resp'.status = 200) =>
         LET md5 == calculate_md5_from_bytes(resp'.content)
             same == {r \in records : r.file_md5 = md5}
             later == \A r \in same : resp'.expiry_time > r.expiry_time
         IN  same # {} =>
               IF later
               THEN /\ \A r \in records' :
                          r.file_md5 = md5 => r.expiry_time = resp'.expiry_time
                    /\ \E r \in records' :
                          r.file_md5 = md5 /\ r.share_code = resp'.share_code
                    /\ \A r \in same : \E q \in records' : q.id = r.id
                    /\ \A r \in records \ same : r \in records'
               ELSE \A r \in records : r \in records']_vars

\* an upload of stored bytes has just given its later expiry to the two
\* earlier records of its digest
C30_Witness ==
    /\ resp.op = "upload"
    /\ resp.status = 200
    /\ Cardinality({r \in records :
                       /\ r.file_md5 = calculate_md5_from_bytes(resp.content)
                       /\ r.upload_time < resp.upload_time
                       /\ r.expiry_time = resp.expiry_time}) = 2

\* C31: under SpecUploads (uploads interleave, sweep runs alone), a record
\* that stays in the store keeps its file_path, filename, original_filename,
\* share_code, file_md5, upload_time and file_size in every step: the only
\* field of a stored record that a step changes is expiry_time.
C31_OnlyExpiryChanges ==
    [][\A r \in records : \A q \in records' :
           q.id = r.id =>
              /\ q.file_path = r.file_path
              /\ q.filename = r.filename
              /\ q.original_filename = r.original_filename
              /\ q.share_code = r.share_code
              /\ q.file_md5 = r.file_md5
              /\ q.upload_time = r.upload_time
              /\ q.file_size = r.file_size]_vars

\* an upload has just rewritten the expiry_time of a record uploaded on an
\* earlier day, under another share code
C31_Witness ==
    /\ resp.op = "upload"
    /\ resp.status = 200
    /\ \E r \in records :
           /\ r.share_code # resp.share_code
           /\ r.upload_time < resp.upload_time
           /\ r.expiry_time = resp.expiry_time
           /\ r.expiry_time # r.upload_time + file_expiry_days

\* C32: under SpecConc (the sweep interleaves with uploads), a step of the
\* info lookup or of the download changes neither the store nor the disk; a
\* step that inserts a record or changes an expiry_time is the commit of an
\* upload; a step that deletes a record is the commit of a sweep run, and a
\* step that removes a file is a step of a sweep run.
C32_WhoChangesWhat ==
    [][/\ IsRetrieval(resp') => records' = records /\ disk' = disk
       /\ (\E q \in records' : \A r \in records :
               r.id # q.id \/ r.expiry_time # q.expiry_time) =>
              resp'.op = "upload" /\ up' # up /\ sw' = sw
       /\ (\E r \in records : \A q \in records' : q.id # r.id) =>
              resp'.op = "sweep" /\ sw' # sw /\ up' = up
       /\ (\E p \in DOMAIN disk : p \notin DOMAIN disk') =>
              sw' # sw /\ up' = up]_vars

\* a download has just served a stored file under a code whose record was
\* extended by a later upload: the record and the file are still there
C32_Witness ==
    /\ resp.op = "download"
    /\ resp.status = 200
    /\ \E r \in RowsOfCode(resp.code) :
           /\ Exists(disk, r.file_path)
           /\ r.expiry_time > r.upload_time + file_expiry_days

\* C33: under SpecUploads (a sweep run runs alone), a sweep run calls unlink
\* at most once for each path, and a path it has unlinked is no longer on
\* disk, also when several expired records with no live record of their
\* digest point to the path.
C33_PathDeletedOnce ==
    resp.op = "sweep" =>
        /\ \A p \in DOMAIN resp.unlink_calls : resp.unlink_calls[p] <= 1
        /\ \A p \in resp.unlinked :
              resp.unlink_calls[p] = 1 /\ ~Exists(disk, p)

\* a run has deleted two expired records of one path, none of the digest
\* being live, and unlinked their file
C33_Witness ==
    /\ resp.op = "sweep"
    /\ resp.committed
    /\ \E r1, r2 \in resp.expired_files :
           /\ r1.id # r2.id
           /\ r1.file_path = r2.file_path
           /\ r1.file_path \in resp.unlinked
           /\ \A r \in records : r.file_md5 # r1.file_md5

\* C34: under SpecModels, the record of a successful upload has expiry_time
\* = upload_time + file_expiry_days when the upload returns; a FileRecord
\* built with upload_time and no expiry_time gets upload_time +
\* file_expiry_days, one built with neither gets the current time as
\* upload_time and the current time + file_expiry_days as expiry_time, and
\* one built with an expiry_time keeps its arguments as given.
C34_ExpiryDefault ==
    /\ (resp.op = "upload" /\ resp.status = 200) =>
           \A r \in RowsOfCode(resp.share_code) :
               /\ r.upload_time = resp.upload_time
               /\ r.expiry_time = r.upload_time + file_expiry_days
    /\ resp.op = "file_record" =>
           LET given == DOMAIN resp.kwargs
           IN  IF "expiry_time" \in given
               THEN resp.record = resp.kwargs
               ELSE IF "upload_time" \in given
               THEN /\ resp.record.upload_time = resp.kwargs.upload_time
                    /\ resp.record.expiry_time =
                           resp.kwargs.upload_time + file_expiry_days
               ELSE /\ resp.record.upload_time = resp.utcnow
                    /\ resp.record.expiry_time = resp.utcnow + file_expiry_days

\* a record has just been built with an expiry_time that is not its
\* upload_time + file_expiry_days, the store holding a record of an upload
C34_Witness ==
    /\ resp.op = "file_record"
    /\ DOMAIN resp.kwargs = {"upload_time", "expiry_time"}
    /\ resp.record.expiry_time # resp.record.upload_time + file_expiry_days
    /\ \E r \in records : r.expiry_time = r.upload_time + file_expiry_days

\* C35 (as claimed): under SpecSecurity, get_client_ip returns the first
\* comma-separated entry of X-Forwarded-For, without the blanks around it,
\* when the header is present; otherwise the value of X-Real-IP when that
\* header is present; otherwise the peer's host; and "unknown" without peer.
C35_ClientIpByPresence ==
    resp.op = "get_client_ip" =>
        LET h == resp.request.headers
        IN  IF "X-Forwarded-For" \in DOMAIN h
            THEN \E n \in 0..Len(h["X-Forwarded-For"]) :
                    /\ \A k \in 1..n : h["X-Forwarded-For"][k] # ","
                    /\ n < Len(h["X-Forwarded-For"]) =>
                           h["X-Forwarded-For"][n + 1] = ","
                    /\ resp.result = ws_strip(SubSeq(h["X-Forwarded-For"], 1, n))
            ELSE IF "X-Real-IP" \in DOMAIN h THEN resp.result = h["X-Real-IP"]
            ELSE IF resp.request.client.peer
            THEN resp.result = resp.request.client.host
            ELSE resp.result = Str_unknown

\* C35 (amended): under SpecSecurity, a header that is present with an empty
\* value counts as absent; with that, get_client_ip returns the first
\* comma-separated entry of X-Forwarded-For without the blanks around it,
\* otherwise X-Real-IP, otherwise the peer's host, otherwise "unknown".
C35_ClientIpByValue ==
    resp.op = "get_client_ip" =>
        LET h == resp.request.headers
            has(name) == name \in DOMAIN h /\ h[name] # << >>
        IN  IF has("X-Forwarded-For")
            THEN \E n \in 0..Len(h["X-Forwarded-For"]) :
                    /\ \A k \in 1..n : h["X-Forwarded-For"][k] # ","
                    /\ n < Len(h["X-Forwarded-For"]) =>
                           h["X-Forwarded-For"][n + 1] = ","
                    /\ resp.result = ws_strip(SubSeq(h["X-Forwarded-For"], 1, n))
            ELSE IF has("X-Real-IP") THEN resp.result = h["X-Real-IP"]
            ELSE IF resp.request.client.peer
            THEN resp.result = resp.request.client.host
            ELSE resp.result = Str_unknown

\* the address was taken from an X-Forwarded-For of two entries with a blank
\* before the first, X-Real-IP and a peer being there too
C35_Witness ==
    /\ resp.op = "get_client_ip"
    /\ DOMAIN resp.request.headers = {"X-Forwarded-For", "X-Real-IP"}
    /\ resp.request.headers["X-Forwarded-For"] = <<" ", "1", ",">>
    /\ resp.request.headers["X-Real-IP"] # << >>
    /\ resp.request.client.peer
    /\ resp.result = <<"1">>

\* C36: under SpecFaults (the commit of a sweep run may fail), when an upload
\* has returned with success, the record of its share code has its file on
\* disk, also when the upload reused the file_path of an earlier record.
C36_UploadedFileExists ==
    (resp.op = "upload" /\ resp.status = 200) =>
        \A r \in RowsOfCode(resp.share_code) : Exists(disk, r.file_path)

\* C37: under SpecConc, a share code for which the retrievals answer 410 is
\* never served again: no step takes a code from the answer 410 to the
\* answer 200; the answer stays 410 until the record is swept and is 404
\* then, also when the same bytes are uploaded again before the sweep.
C37_ExpiredStaysExpired ==
    [][\A c \in Codes :
          (/\ get_file_info_status(records, disk, now, c) = 410
           /\ download_file_status(records, disk, now, c) = 410) =>
              /\ get_file_info_status(records', disk', now', c) \in {410, 404}
              /\ download_file_status(records', disk', now', c) \in {410, 404}]_vars

\* C38: under FairUploads (uploads interleave, sweep runs complete without
\* error), a file on disk all of whose content's records have expired, no
\* upload being in flight, is eventually removed, unless a record of its
\* content becomes live again: no file stays on disk without a record.
C38_FilesEventuallyRemoved ==
    LET Paths == {StoragePath(t, StoredFilename(t, c, SafeFilename(req[2]))) :
                     t \in 0..MaxTime, c \in Codes, req \in ConcRequests}
        AllExpired(p) ==
            /\ Exists(disk, p)
            /\ UploadsIdle
            /\ \A r \in records :
                   r.file_md5 = calculate_md5_from_bytes(disk[p]) =>
                       r.expiry_time < now
    IN  \A p \in Paths : AllExpired(p) ~> (~Exists(disk, p) \/ ~AllExpired(p))

\* C39: under SpecFaults (records may have lost their file), in every state
\* and for every share code the info lookup and the download give the same
\* outcome: both 200, both 404 or both 410.
C39_InfoAndDownloadAgree ==
    \A c \in Codes :
        get_file_info_status(records, disk, now, c) =
            download_file_status(records, disk, now, c)

\* the store holds an expired record whose file a failed sweep run has
\* removed, and a share code is free: the outcomes are 410 and 404
C39_Witness ==
    /\ \E r \in records :
           /\ r.expiry_time < now
           /\ ~Exists(disk, r.file_path)
           /\ download_file_status(records, disk, now, r.share_code) = 410
           /\ get_file_info_status(records, disk, now, r.share_code) = 410
    /\ \E c \in Codes :
           /\ RowsOfCode(c) = {}
           /\ get_file_info_status(records, disk, now, c) = 404

\* C40: under SpecUploads, at every instant each record is either passed by
\* the expiry test of the retrievals (expiry_time >= now: no answer 410)
\* or selected as expired by a sweep run beginning then (expiry_time < now),
\* never both and never neither; and the records that keep a file alive in
\* the sweep's test for a record are exactly the other records of the digest
\* that the retrievals' expiry test passes.
C40_SameExpiryBoundary ==
    \A r \in records :
        LET servable(q) ==
                /\ get_file_info_status(records, disk, now, q.share_code) # 410
                /\ download_file_status(records, disk, now, q.share_code) # 410
        IN  /\ servable(r) <=> r.expiry_time >= now
            /\ r \in ExpiredFiles(records, now) <=> r.expiry_time < now
            /\ servable(r) <=> r \notin ExpiredFiles(records, now)
            /\ OtherShares(records, r, now) =
                   {q \in records : /\ q.file_md5 = r.file_md5
                                    /\ q.id # r.id
                                    /\ servable(q)}

\* a record expires exactly now and another record of its digest has
\* expired: the first is served and keeps the file, the second is selected
C40_Witness ==
    \E r, q \in records :
        /\ r.expiry_time = now
        /\ q.expiry_time < now
        /\ q.file_md5 = r.file_md5
        /\ r \in OtherShares(records, q, now)
        /\ q \in ExpiredFiles(records, now)
        /\ get_file_info_status(records, disk, now, r.share_code) = 200

TypeOK ==
    /\ now \in 0..MaxTime
    /\ dbLock \in Uploaders \cup Jobs \cup {NoLock}
    /\ \A r \in records : r.share_code \in Codes /\ r.id >= 1

====
